---------------------------- MODULE Spec2Model ----------------------------
(***************************************************************************)
(* Account/session lifecycle engine of the authscale backend template.     *)
(*                                                                         *)
(* The committed users collection, the requests in flight (one per         *)
(* request slot, each at a position between two awaits of its handler),    *)
(* the clock in seconds and the access tokens handed to clients.           *)
(* Every service operation runs in a MongoDB transaction: its writes stay  *)
(* in the request's pending document until the commit step.                *)
(***************************************************************************)
EXTENDS Integers, Sequences, FiniteSets, TLC

(***************************************************************************)
(* Bounds of the model                                                     *)
(***************************************************************************)
\* the clock runs over 0..MaxTime (seconds, the resolution of a JWT's iat)
MaxTime == 2
\* env.JWT_EXPIRE, scaled to clock ticks so that a token can expire
AccessExpire == 2
\* env.JWT_REFRESH_EXPIRE, scaled alike (longer than the access expiry)
RefreshExpire == 3
\* number of documents the collection may hold
MaxUsers == 2
\* number of requests the server receives in a run
MaxReq == 3

\* request slots: requests handled concurrently by the event loop
Proc == {"r1", "r2"}
Emails == {"a@x.com", "b@x.com"}
\* passwords clients register with, and passwords they try at login
RegisterPasswords == {"Passw0rd"}
Passwords == RegisterPasswords \cup {"Wrong1234"}
Names == {"Ann"}

VARIABLES
  now,      \* Date.now() in seconds
  users,    \* committed documents of the users collection, by _id
  nextId,   \* next _id to hand out
  procs,    \* per request slot: position and locals of the request in flight
  resp,     \* the response written by the latest step (NoResponse if none)
  issued,   \* access tokens returned to clients so far
  reqs,     \* requests received so far
  hits,     \* requests counted by each rate limiter in its current window
  attempts, \* history: requests that reached the strict limiter in its window, by endpoint
  outbound, \* the latest request through the middleware chain and its response
  slow,     \* speedLimiter: requests counted in its window, and what it did to the latest
  db        \* connectDB: position in the retry loop and what it did so far

\* the state of the lifecycle engine, and the state of the middleware chain
engineVars == <<now, users, nextId, procs, resp, issued, reqs>>
pipelineVars == <<hits, attempts, outbound>>
slowDownVars == <<slow>>
connectVars == <<db>>
vars == <<now, users, nextId, procs, resp, issued, reqs, hits, attempts, outbound, slow, db>>

(***************************************************************************)
(* Constants of the program                                                *)
(***************************************************************************)
NullTime == -1

MESSAGES ==
  [ USER_NOT_FOUND      |-> "User not found",
    USER_EXISTS         |-> "User already exists",
    INVALID_CREDENTIALS |-> "Invalid email or password",
    USER_CREATED        |-> "User created successfully",
    USER_UPDATED        |-> "User updated successfully",
    USER_DELETED        |-> "User deleted successfully",
    LOGIN_SUCCESS       |-> "Login successful",
    LOGOUT_SUCCESS      |-> "Logout successful",
    VALIDATION_ERROR    |-> "Validation error",
    TOKEN_REQUIRED      |-> "Authentication token required",
    TOKEN_INVALID       |-> "Invalid or expired token",
    INTERNAL_ERROR      |-> "Internal server error" ]

JWT_SECRET == "JWT_SECRET"
JWT_REFRESH_SECRET == "JWT_REFRESH_SECRET"

(***************************************************************************)
(* Tokens: jwt.sign is a function of the payload, the second it is called  *)
(* in, the expiry and the secret. Two calls with the same payload in the   *)
(* same second return the same string.                                     *)
(***************************************************************************)
jwtSign(userId, email, secret, expiresIn, t) ==
  [userId |-> userId, email |-> email, iat |-> t, exp |-> t + expiresIn, sig |-> secret]

generateAccessToken(userId, email, t) ==
  jwtSign(userId, email, JWT_SECRET, AccessExpire, t)

\* a refresh token signed in the signing context of the access token
generateRefreshToken_accessContext(userId, email, t) ==
  jwtSign(userId, email, JWT_SECRET, AccessExpire, t)

generateRefreshToken(userId, email, t) ==
  jwtSign(userId, email, JWT_REFRESH_SECRET, RefreshExpire, t)

\* the null stored token, and the absent Authorization header
NoToken == [userId |-> 0, email |-> "", iat |-> NullTime, exp |-> NullTime, sig |-> "null"]

\* a token signed with a key the server does not know
ForgedToken == [userId |-> 1, email |-> "a@x.com", iat |-> 0, exp |-> MaxTime + 1, sig |-> "attacker"]

\* jwt.verify(token, env.JWT_SECRET): the signature, then the expiry
jwtVerify(token, secret, t) == token.sig = secret /\ t < token.exp

\* TRUE when verifyAccessToken returns the payload, FALSE when it throws
verifyAccessToken(token, t) == jwtVerify(token, JWT_SECRET, t)

\* the error jwt.verify throws: JsonWebTokenError for a bad signature,
\* TokenExpiredError for a well-signed token past its exp, none otherwise
jwtVerifyError(token, secret, t) ==
  IF token.sig # secret THEN "JsonWebTokenError"
  ELSE IF t >= token.exp THEN "TokenExpiredError"
  ELSE "none"

\* what the caller of verifyAccessToken catches: the message of the Error
\* the catch block throws in place of jwt.verify's error
verifyAccessTokenError(token, t) ==
  IF jwtVerifyError(token, JWT_SECRET, t) = "none"
  THEN "none"
  ELSE "Invalid or expired access token"

\* the same for verifyRefreshToken
verifyRefreshTokenError(token, t) ==
  IF jwtVerifyError(token, JWT_REFRESH_SECRET, t) = "none"
  THEN "none"
  ELSE "Invalid or expired refresh token"

(***************************************************************************)
(* Passwords: bcrypt                                                       *)
(***************************************************************************)
hashPassword(password) == <<"bcrypt", password>>

\* a comparison that accepts every password
comparePassword_always(password, hash) == TRUE

comparePassword(password, hash) == hash = <<"bcrypt", password>>

(***************************************************************************)
(* Documents of the users collection                                       *)
(***************************************************************************)
\* new User({email, name, password, isUpdated: false, isDeleted: false})
\* with the schema's defaults (createdAt and updatedAt, which the timestamps
\* option maintains and no operation reads, are left out)
NewUser(email, name, hashed) ==
  [ email         |-> email,
    name          |-> name,
    password      |-> hashed,
    accessToken   |-> NoToken,
    refreshToken  |-> NoToken,
    isActive      |-> TRUE,
    isUpdated     |-> FALSE,
    isDeleted     |-> FALSE,
    deletedAt     |-> NullTime,
    lastUpdatedAt |-> NullTime,
    lastLogin     |-> NullTime ]

NoDoc == NewUser("", "", <<"bcrypt", "">>)

Ids == DOMAIN users

\* User.findOne({ email }): the email index is unique, so at most one matches
findByEmail(email) == {i \in Ids : users[i].email = email}

\* the filter { email } alone, without isDeleted: false
findActiveByEmail_anyState(email) == {i \in Ids : users[i].email = email}

\* User.findOne({ email, isDeleted: false })
findActiveByEmail(email) == {i \in Ids : users[i].email = email /\ ~users[i].isDeleted}

\* the filter { _id } alone, without isDeleted: false
findLiveById_anyState(id) == {i \in Ids : i = id}

\* User.findOne({ _id, isDeleted: false })
findLiveById(id) == {i \in Ids : i = id /\ ~users[i].isDeleted}

(***************************************************************************)
(* Requests in flight                                                      *)
(***************************************************************************)
Idle ==
  [ pc |-> "idle", op |-> "", email |-> "", name |-> "", password |-> "",
    bearer |-> NoToken, patch |-> "", userId |-> 0, sawDeleted |-> FALSE,
    stale |-> FALSE, pend |-> NoDoc ]

\* the fields of doc named in fields
Pick(doc, fields) == [f \in (DOMAIN doc) \cap fields |-> doc[f]]

\* what a query without .select('+password') loads of a document
defaultProjection(doc) == Pick(doc, (DOMAIN doc) \ {"password"})

\* a schema without the toJSON transform
toJSON_noTransform(doc) == doc

\* the schema's toJSON transform, applied when res.json serializes a
\* document: password and both tokens deleted, null for a deleted document
toJSON(doc) ==
  IF "isDeleted" \in DOMAIN doc /\ doc.isDeleted
  THEN Pick(doc, {})
  ELSE Pick(doc, (DOMAIN doc) \ {"password", "accessToken", "refreshToken"})

\* the user summary createUser and loginUser build by hand
userSummary(id, doc, fields) == Pick(doc, fields) @@ [id |-> id]

\* a response body without data
NoData == Pick(NoDoc, {})

\* an HTTP exchange: the request (route and what it carried) and the
\* envelope written for it (status, message and the data fields of the body)
NoResponse ==
  [ op |-> "", email |-> "", password |-> "", bearer |-> NoToken, patch |-> "",
    status |-> 0, message |-> "", userId |-> 0,
    accessToken |-> NoToken, refreshToken |-> NoToken, deletedAt |-> NullTime,
    data |-> NoData ]

\* sendSuccess / sendError for the request r
Reply(r, status, message) ==
  [NoResponse EXCEPT !.op = r.op, !.email = r.email, !.password = r.password,
                     !.bearer = r.bearer, !.patch = r.patch,
                     !.status = status, !.message = message]

\* the response to the request in flight in slot p
Response(p, status, message) == Reply(procs[p], status, message)

\* positions at which a request holds an uncommitted write to document userId
WritePending == {"loginUser_commit", "updateUser_commit", "logoutUser_commit", "deleteUser_commit"}

\* another transaction holds an uncommitted write to the document
DocLocked(p, id) ==
  \E q \in Proc \ {p} : procs[q].pc \in WritePending /\ procs[q].userId = id

\* another transaction holds an uncommitted insert of the email key
EmailKeyPending(p, email) ==
  \E q \in Proc \ {p} :
    procs[q].pc \in {"createUser_tokens", "createUser_commit"} /\ procs[q].pend.email = email

\* commits that leave the snapshots of other open transactions usable
Invalidate_noConflict(p, id, next) == [procs EXCEPT ![p] = next]

\* a commit that changes document id invalidates the snapshots other open
\* transactions have taken of it
Invalidate(p, id, next) ==
  [q \in Proc |->
     IF q = p THEN next
     ELSE IF procs[q].pc = "loginUser_save" /\ procs[q].userId = id
          THEN [procs[q] EXCEPT !.stale = TRUE]
          ELSE procs[q]]

(***************************************************************************)
(* The middleware chain of app.js: request id, security, body parser,      *)
(* rate limiters, routes (validator, controller), 404 and error handler.   *)
(* One client is modelled: the limiters' counters are the ones kept for    *)
(* that client's address.                                                  *)
(***************************************************************************)
\* env.RATE_LIMIT_MAX_REQUESTS (default 100), scaled
GlobalMax == 3
\* env.RATE_LIMIT_AUTH_MAX (default 5), scaled
AuthMax == 2
\* requests a client may send beyond a ceiling within one window
Overshoot == 1

\* env.API_PREFIX, '/api/v1', as path segments
API_PREFIX == <<"api", "v1">>

HealthUrl == API_PREFIX \o <<"health">>
LoginUrl == API_PREFIX \o <<"users", "login">>
RegisterUrl == API_PREFIX \o <<"users", "register">>
ProfileUrl == API_PREFIX \o <<"users", "profile">>

\* the URLs the client requests: the routes, '/api/v1/api/v1/health' and a
\* path outside the API
Urls ==
  {HealthUrl, LoginUrl, RegisterUrl, ProfileUrl, API_PREFIX \o HealthUrl, <<"favicon.ico">>}

\* Origin header: absent, listed in env.ALLOWED_ORIGINS, or not listed
Origins == {"none", "allowed", "foreign"}

\* values crypto.randomUUID() may return
UUIDs == {"uuid-1", "uuid-2"}

\* app.use(mount, fn) runs fn for the URLs under mount
startsWith(url, mount) ==
  Len(url) >= Len(mount) /\ SubSeq(url, 1, Len(mount)) = mount

\* req.path as seen by a middleware mounted at mount: the mount is stripped
pathUnder(url, mount) == SubSeq(url, Len(mount) + 1, Len(url))

\* the stage a middleware mounted at a path adds for a URL
mounted(url, mount, stage) == IF startsWith(url, mount) THEN <<stage>> ELSE <<>>

NoHits == [global |-> 0, auth |-> 0]

NoAttempts == [login |-> 0, register |-> 0]

(***************************************************************************)
(* speedLimiter: express-slow-down on every URL under the API prefix       *)
(***************************************************************************)
\* env.RATE_LIMIT_SLOW_DOWN_DELAY_AFTER, env.RATE_LIMIT_SLOW_DOWN_MAX_DELAY
RATE_LIMIT_SLOW_DOWN_DELAY_AFTER == 50
RATE_LIMIT_SLOW_DOWN_MAX_DELAY == 20000

\* milliseconds of delay per counted request
DelayPerHit == 100

\* requests of the client within one window of the speedLimiter
MaxUsed == 205

\* delayMs: (hits) => hits * 100
delayMs(used) == used * DelayPerHit

\* a slow-down without maxDelayMs
slowDown_uncapped(used) ==
  [ status |-> 0,
    delay  |-> IF used > RATE_LIMIT_SLOW_DOWN_DELAY_AFTER THEN delayMs(used) ELSE 0,
    nexts  |-> 1 ]

\* slowDown({delayAfter, delayMs, maxDelayMs}) on the request that brings the
\* count of the window to used: no delay up to delayAfter, delayMs(used)
\* above it, at most maxDelayMs; then next() is called, no response written
slowDown(used) ==
  LET delay == IF used > RATE_LIMIT_SLOW_DOWN_DELAY_AFTER THEN delayMs(used) ELSE 0
  IN [ status |-> 0,
       delay  |-> IF delay > RATE_LIMIT_SLOW_DOWN_MAX_DELAY
                  THEN RATE_LIMIT_SLOW_DOWN_MAX_DELAY ELSE delay,
       nexts  |-> 1 ]

NoSlow == [status |-> 0, used |-> 0, delay |-> 0, nexts |-> 0]

(***************************************************************************)
(* connectDB: the retry loop around mongoose.connect                       *)
(***************************************************************************)
\* env.MONGO_MAX_RETRIES, env.MONGO_RETRY_DELAY_MS
MONGO_MAX_RETRIES == 5
MONGO_RETRY_DELAY_MS == 2000

\* the largest number of retries a deployment configures
MaxRetries == 6

\* values of the retries parameter, and of env.MONGO_RETRY_DELAY_MS
RetriesConfigured == 0 .. MaxRetries
RetryDelays == {MONGO_RETRY_DELAY_MS, MONGO_RETRY_DELAY_MS \div 2}

\* for (...; i < retries; ...)
loopCondition(i, retries) == i < retries

\* a catch block that waits after every failed attempt
shouldWait_always(i, retries) == TRUE

\* if (i < retries - 1)
shouldWait(i, retries) == i < retries - 1

\* const delay = (i + 1) * env.MONGO_RETRY_DELAY_MS
retryDelayOf(i, retryDelay) == (i + 1) * retryDelay

\* connectDB before it is called: results are the outcomes of the calls of
\* mongoose.connect so far, waits the delays slept so far, exitCode -1
\* while the process runs
NotStarted ==
  [ i |-> 0, pc |-> "idle", retries |-> 0, retryDelay |-> 0, results |-> <<>>,
    waits |-> <<>>, exitCode |-> -1 ]

(***************************************************************************)
(* JSON values of a request body: a type tag and, for strings, the text.   *)
(***************************************************************************)
Str(text) == [text |-> text, type |-> "string"]
Undefined == [text |-> "", type |-> "undefined"]
\* an operator-shaped object such as {$ne: null}
OperatorObject == [text |-> "{$ne: null}", type |-> "object"]
\* the same object after mongoSanitize({replaceWith: '_'}) rewrote its key
RewrittenObject == [text |-> "{_ne: null}", type |-> "object"]
\* JSON null
Null == [text |-> "", type |-> "null"]

\* mongoSanitize on one value: keys that begin with '$' are rewritten
mongoSanitize(value) == IF value = OperatorObject THEN RewrittenObject ELSE value

\* xss() on one value: '<' in a string is escaped
xss(value) == IF value = Str("<b>Ann</b>") THEN Str("&lt;b>Ann&lt;/b>") ELSE value

\* the two sanitizers of configureSecurity applied to what req.body holds
\* when they run
sanitize(reqBody) == [f \in DOMAIN reqBody |-> xss(mongoSanitize(reqBody[f]))]

\* what the regular expressions and .trim().length give for each text
StringFacts ==
  [ empty    |-> [text |-> "",         length |-> 0, email |-> FALSE, alnum |-> FALSE,
                  upper |-> FALSE, lower |-> FALSE, digit |-> FALSE],
    address  |-> [text |-> "a@x.com",  length |-> 7, email |-> TRUE,  alnum |-> FALSE,
                  upper |-> FALSE, lower |-> TRUE,  digit |-> FALSE],
    nobody   |-> [text |-> "nobody",   length |-> 6, email |-> FALSE, alnum |-> TRUE,
                  upper |-> FALSE, lower |-> TRUE,  digit |-> FALSE],
    strong   |-> [text |-> "Passw0rd", length |-> 8, email |-> FALSE, alnum |-> TRUE,
                  upper |-> TRUE,  lower |-> TRUE,  digit |-> TRUE],
    weak     |-> [text |-> "bad",      length |-> 3, email |-> FALSE, alnum |-> TRUE,
                  upper |-> FALSE, lower |-> TRUE,  digit |-> FALSE],
    ann      |-> [text |-> "Ann",      length |-> 3, email |-> FALSE, alnum |-> TRUE,
                  upper |-> TRUE,  lower |-> TRUE,  digit |-> FALSE],
    initial  |-> [text |-> "B",        length |-> 1, email |-> FALSE, alnum |-> TRUE,
                  upper |-> TRUE,  lower |-> FALSE, digit |-> FALSE],
    markup   |-> [text |-> "<b>Ann</b>", length |-> 10, email |-> FALSE, alnum |-> FALSE,
                  upper |-> TRUE,  lower |-> TRUE,  digit |-> FALSE],
    escaped  |-> [text |-> "&lt;b>Ann&lt;/b>", length |-> 16, email |-> FALSE,
                  alnum |-> FALSE, upper |-> TRUE,  lower |-> TRUE,  digit |-> FALSE] ]

FactsOf(text) ==
  LET k == CHOOSE k \in DOMAIN StringFacts : StringFacts[k].text = text
  IN StringFacts[k]

\* data[fieldName]: undefined for a key the object does not have
Field(data, fieldName) ==
  IF fieldName \in DOMAIN data THEN data[fieldName] ELSE Undefined

\* a test that takes no value for absent
isNullish_never(value) == FALSE

isNullish(value) == value.type \in {"undefined", "null"}

isValidEmail(value) == value.type = "string" /\ FactsOf(value.text).email

isAlphanumeric(value, allowSpaces) == value.type = "string" /\ FactsOf(value.text).alnum

\* a violation message: the field it is about, the text after the field name
\* and, for 'Missing required fields', the fields listed
Message(fieldName, text) == [text |-> text, field |-> fieldName, missing |-> <<>>]

\* validateLength: the first bound the trimmed length breaks (0: bound not set)
validateLength(value, min, max) ==
  IF value.type # "string" THEN <<"Value must be a string">>
  ELSE IF min # 0 /\ FactsOf(value.text).length < min THEN <<"Must be at least min characters">>
  ELSE IF max # 0 /\ FactsOf(value.text).length > max THEN <<"Must be no more than max characters">>
  ELSE <<>>

\* validatePassword: the message of the first rule the password breaks
validatePassword(value, options) ==
  IF value.type # "string" \/ value.text = "" THEN <<"Password is required">>
  ELSE IF FactsOf(value.text).length < options.minLength
       THEN <<"Password must be at least minLength characters long">>
  ELSE IF options.requireUppercase /\ ~FactsOf(value.text).upper
       THEN <<"Password must contain at least one uppercase letter">>
  ELSE IF options.requireLowercase /\ ~FactsOf(value.text).lower
       THEN <<"Password must contain at least one lowercase letter">>
  ELSE IF options.requireNumbers /\ ~FactsOf(value.text).digit
       THEN <<"Password must contain at least one number">>
  ELSE <<>>

\* validateRequired: the required fields that are undefined, null or blank
RECURSIVE validateRequired(_, _)
validateRequired(data, requiredFields) ==
  IF requiredFields = <<>> THEN <<>>
  ELSE LET value == Field(data, Head(requiredFields))
           rest == validateRequired(data, Tail(requiredFields))
       IN IF isNullish(value) \/ value = Str("")
          THEN <<Head(requiredFields)>> \o rest
          ELSE rest

\* rules a schema may set for a field; 0 and FALSE stand for a rule not set
NoRules ==
  [ required |-> FALSE, type |-> "", email |-> FALSE, minLength |-> 0, maxLength |-> 0,
    alphanumeric |-> FALSE, allowSpaces |-> FALSE, password |-> FALSE,
    requireUppercase |-> FALSE, requireLowercase |-> FALSE, requireNumbers |-> FALSE ]

Rules(set) == [r \in DOMAIN NoRules |-> IF r \in DOMAIN set THEN set[r] ELSE NoRules[r]]

registerSchema ==
  [ required |-> <<"email", "name", "password">>,
    order |-> <<"email", "name", "password">>,
    fields |->
      [ email |-> Rules([required |-> TRUE, type |-> "string", email |-> TRUE,
                         minLength |-> 5, maxLength |-> 255]),
        name |-> Rules([required |-> TRUE, type |-> "string", minLength |-> 2,
                        maxLength |-> 50, alphanumeric |-> TRUE, allowSpaces |-> TRUE]),
        password |-> Rules([required |-> TRUE, type |-> "string", password |-> TRUE,
                            minLength |-> 8, requireUppercase |-> TRUE,
                            requireLowercase |-> TRUE, requireNumbers |-> TRUE]) ] ]

loginSchema ==
  [ required |-> <<"email", "password">>,
    order |-> <<"email", "password">>,
    fields |->
      [ email |-> Rules([required |-> TRUE, type |-> "string", email |-> TRUE]),
        password |-> Rules([required |-> TRUE, type |-> "string", minLength |-> 1]) ] ]

profileSchema ==
  [ required |-> <<>>,
    order |-> <<"name">>,
    fields |->
      [ name |-> Rules([type |-> "string", minLength |-> 2, maxLength |-> 50,
                        alphanumeric |-> TRUE, allowSpaces |-> TRUE]) ] ]

\* the type check of a field: typeMap[fieldRules.type]
typeMatches_any(type, value) == TRUE

typeMatches(type, value) ==
  IF type = "string" THEN value.type = "string"
  ELSE IF type = "object" THEN value.type = "object"
  ELSE FALSE

\* the string validations of a field, in the order of the code
stringErrors(fieldName, rules, value) ==
  IF value.type # "string" THEN <<>>
  ELSE (IF rules.email /\ ~isValidEmail(value)
        THEN <<Message(fieldName, "must be a valid email address")>> ELSE <<>>)
    \o (IF rules.alphanumeric /\ ~isAlphanumeric(value, rules.allowSpaces)
        THEN <<Message(fieldName, "must contain only alphanumeric characters and spaces")>>
        ELSE <<>>)
    \o (IF rules.minLength # 0 \/ rules.maxLength # 0
        THEN [i \in DOMAIN validateLength(value, rules.minLength, rules.maxLength) |->
                Message(fieldName, validateLength(value, rules.minLength, rules.maxLength)[i])]
        ELSE <<>>)

\* passwordOptions of the password rule of a field
passwordOptions(rules) ==
  [ minLength |-> IF rules.minLength # 0 THEN rules.minLength ELSE 8,
    requireUppercase |-> rules.requireUppercase,
    requireLowercase |-> rules.requireLowercase,
    requireNumbers |-> rules.requireNumbers ]

passwordErrors(fieldName, rules, value) ==
  IF ~rules.password THEN <<>>
  ELSE LET found == validatePassword(value, passwordOptions(rules))
       IN [i \in DOMAIN found |-> Message(fieldName, found[i])]

\* one pass of the forEach callback: the messages pushed for one field
fieldErrors(fieldName, rules, value) ==
  IF isNullish(value) /\ ~rules.required THEN <<>>
  ELSE IF rules.required /\ (isNullish(value) \/ value = Str(""))
  THEN <<Message(fieldName, "is required")>>
  ELSE IF rules.type # "" /\ ~typeMatches(rules.type, value)
  THEN <<Message(fieldName, "must be of type")>>
  ELSE stringErrors(fieldName, rules, value) \o passwordErrors(fieldName, rules, value)

RECURSIVE allFieldErrors(_, _, _)
allFieldErrors(schema, order, data) ==
  IF order = <<>> THEN <<>>
  ELSE fieldErrors(Head(order), schema.fields[Head(order)], Field(data, Head(order)))
         \o allFieldErrors(schema, Tail(order), data)

\* the errors array of validateRequest(schema)(req, res, next)
validationErrors(schema, data) ==
  (IF validateRequired(data, schema.required) # <<>>
   THEN <<[text |-> "Missing required fields", field |-> "",
           missing |-> validateRequired(data, schema.required)]>>
   ELSE <<>>)
  \o allFieldErrors(schema, schema.order, data)

\* the end of validateRequest with every path calling next()
validatorGate_fallsThrough(errors) ==
  [replies |-> IF Len(errors) > 0 THEN 1 ELSE 0, nexts |-> 1]

\* the end of validateRequest: responses written and calls of next()
validatorGate(errors) ==
  IF Len(errors) > 0 THEN [replies |-> 1, nexts |-> 0] ELSE [replies |-> 0, nexts |-> 1]

(***************************************************************************)
(* Errors passed to next(error), and the error handler                     *)
(***************************************************************************)
NoError == [name |-> "", message |-> "", code |-> 0, statusCode |-> 0, keyPattern |-> ""]

\* an Error the service throws with a statusCode
AppError(message, statusCode) ==
  [name |-> "Error", message |-> message, code |-> 0, statusCode |-> statusCode, keyPattern |-> ""]

\* the error of the cors origin callback
CorsError ==
  [ name |-> "Error", message |-> "CORS policy blocked request from: foreign",
    code |-> 0, statusCode |-> 0, keyPattern |-> "" ]

\* errors of the MongoDB driver and of the runtime
DuplicateKeyError ==
  [ name |-> "MongoServerError",
    message |-> "E11000 duplicate key error collection: users index: email_1",
    code |-> 11000, statusCode |-> 0, keyPattern |-> "email" ]
WriteConflictError ==
  [ name |-> "MongoServerError", message |-> "WriteConflict",
    code |-> 112, statusCode |-> 0, keyPattern |-> "" ]
BlankError == [name |-> "Error", message |-> "", code |-> 0, statusCode |-> 0, keyPattern |-> ""]

\* err.message.includes('CORS')
includesCORS(message) == message = CorsError.message

\* sendError(res, message, statusCode, errors)
sendError(message, statusCode, errors) ==
  [status |-> statusCode, message |-> message, errors |-> errors]

\* the default branch of errorHandler
defaultError(err) ==
  sendError(IF err.message # "" THEN err.message ELSE MESSAGES.INTERNAL_ERROR,
            IF err.statusCode # 0 THEN err.statusCode ELSE 500, <<>>)

errorHandler(err) ==
  IF includesCORS(err.message) THEN sendError("CORS policy violation", 403, <<>>)
  ELSE IF err.name = "ValidationError" THEN sendError(MESSAGES.VALIDATION_ERROR, 400, <<>>)
  ELSE IF err.name = "CastError" THEN sendError("Invalid data format", 400, <<>>)
  ELSE IF err.code = 11000 THEN sendError(err.keyPattern \o " already exists", 409, <<>>)
  ELSE IF err.name = "JsonWebTokenError" THEN sendError(MESSAGES.TOKEN_INVALID, 401, <<>>)
  ELSE IF err.name = "TokenExpiredError" THEN sendError("Token has expired", 401, <<>>)
  ELSE IF err.statusCode # 0 THEN sendError(err.message, err.statusCode, <<>>)
  ELSE defaultError(err)

(***************************************************************************)
(* The middleware chain: one request from the first middleware to the      *)
(* response                                                                *)
(***************************************************************************)
\* the bodies the client posts to /users/register and /users/login
RegisterBodies ==
  { [email |-> Str("a@x.com"), name |-> Str("Ann"), password |-> Str("Passw0rd")],
    [name |-> Str("Ann"), password |-> Str("Passw0rd")],
    [email |-> Str("nobody"), name |-> Str("Ann"), password |-> Str("Passw0rd")],
    [email |-> Str("a@x.com"), name |-> Str("Ann"), password |-> Str("bad")],
    [email |-> Str(""), name |-> Str("B"), password |-> Str("Passw0rd")],
    [email |-> OperatorObject, name |-> Str("Ann"), password |-> OperatorObject],
    [email |-> Str("a@x.com"), name |-> Str("<b>Ann</b>"), password |-> Str("Passw0rd")] }

LoginBodies ==
  { [email |-> Str("a@x.com"), password |-> Str("Passw0rd")],
    [email |-> Str("a@x.com")],
    [email |-> OperatorObject, password |-> OperatorObject],
    [email |-> OperatorObject, password |-> Str("Passw0rd")],
    [email |-> Str("a@x.com"), password |-> OperatorObject] }

\* a request without a JSON body: bodyParser leaves an empty object
NoBody == [f \in {} |-> Undefined]

\* the bodies the client puts to /users/profile
ProfileBodies ==
  {NoBody, [name |-> Str("Ann")], [name |-> Str("B")], [name |-> Null]}

\* the methods the routes are defined for
MethodsOf(url) ==
  IF url \in {RegisterUrl, LoginUrl} THEN {"POST"}
  ELSE IF url = ProfileUrl THEN {"GET", "PUT"}
  ELSE {"GET"}

BodiesOf(method, url) ==
  IF url = RegisterUrl THEN RegisterBodies
  ELSE IF url = LoginUrl THEN LoginBodies
  ELSE IF method = "PUT" THEN ProfileBodies
  ELSE {NoBody}

\* what a controller (with authenticate before it on /users/profile) does:
\* it sends a response, or passes the error it caught to next(error)
Returned(status, message, tokens) ==
  [status |-> status, message |-> message, thrown |-> NoError, tokens |-> tokens]

Thrown(err) ==
  [ status |-> errorHandler(err).status, message |-> errorHandler(err).message,
    thrown |-> err, tokens |-> FALSE ]

ControllerOutcomes(url) ==
  IF url = RegisterUrl
  THEN { Returned(201, MESSAGES.USER_CREATED, TRUE),
         Thrown(AppError(MESSAGES.USER_EXISTS, 409)),
         Thrown(DuplicateKeyError), Thrown(WriteConflictError), Thrown(BlankError) }
  ELSE IF url = LoginUrl
  THEN { Returned(200, MESSAGES.LOGIN_SUCCESS, TRUE),
         Thrown(AppError(MESSAGES.INVALID_CREDENTIALS, 401)),
         Thrown(AppError("User account is deactivated", 403)),
         Thrown(WriteConflictError) }
  ELSE IF url = ProfileUrl
  THEN { Returned(401, MESSAGES.TOKEN_REQUIRED, FALSE),
         Returned(200, "Profile retrieved successfully", FALSE),
         Thrown(AppError(MESSAGES.USER_NOT_FOUND, 404)) }
  ELSE { Returned(200, "Server is running", FALSE),
         Returned(503, "Server is running", FALSE) }

\* authenticate, then updateProfile, on PUT /users/profile
UpdateOutcomes ==
  { Returned(401, MESSAGES.TOKEN_REQUIRED, FALSE),
    Returned(200, MESSAGES.USER_UPDATED, FALSE),
    Thrown(AppError(MESSAGES.USER_NOT_FOUND, 404)) }

OutcomesOf(method, url) ==
  IF method = "PUT" THEN UpdateOutcomes ELSE ControllerOutcomes(url)

\* requestId without the header
requestId_noHeader(uuid) == [id |-> uuid, header |-> ""]

\* requestId: req.id and the X-Request-ID header of the response
requestId(uuid) == [id |-> uuid, header |-> uuid]

\* a skip option written against the path below the mount point
skip_belowMount(path) == path = <<"health">>

\* the skip option of globalLimiter, given req.path
skip(path) == path = HealthUrl

\* a limiter that lets every request through
rateLimit_unlimited(count, max) == [hits |-> count + 1, limited |-> FALSE]

\* rateLimit({max}): the request is counted, then rejected above max
rateLimit(count, max) == [hits |-> count + 1, limited |-> count + 1 > max]

Unlimited(count) == [hits |-> count, limited |-> FALSE]

\* app.use(API_PREFIX + '/', globalLimiter)
globalLimiter(url, count) ==
  IF ~startsWith(url, API_PREFIX) THEN Unlimited(count)
  ELSE IF skip(pathUnder(url, API_PREFIX)) THEN Unlimited(count)
  ELSE rateLimit(count, GlobalMax)

\* a strict limiter mounted on the login route only
authLimiter_loginOnly(url, count) ==
  IF startsWith(url, LoginUrl)
  THEN rateLimit(count, AuthMax)
  ELSE Unlimited(count)

\* app.use(API_PREFIX + '/users/login', authLimiter), and '/users/register'
authLimiter(url, count) ==
  IF startsWith(url, LoginUrl) \/ startsWith(url, RegisterUrl)
  THEN rateLimit(count, AuthMax)
  ELSE Unlimited(count)

NoOutbound ==
  [ id |-> "", status |-> 0, message |-> "", url |-> <<>>, errors |-> <<>>,
    replies |-> 0, nexts |-> 0, method |-> "", tokens |-> FALSE, thrown |-> NoError,
    header |-> "", origin |-> "none", body |-> NoBody, stages |-> <<>>,
    payload |-> NoBody ]

\* bodyParser.json(): req.body becomes the parsed body of the request
bodyParser(reqBody, body) == body

\* the request after requestId, configureSecurity and bodyParser: body is
\* what the client sent, payload what req.body holds from then on. While
\* the sanitizers run nothing is parsed yet: req.body holds no field.
Inbound(method, url, origin, body, uuid) ==
  [ NoOutbound EXCEPT !.method = method, !.url = url, !.origin = origin, !.body = body,
                      !.payload = bodyParser(sanitize(NoBody), body),
                      !.id = requestId(uuid).id, !.header = requestId(uuid).header ]

\* the schema validateBody was built with on the route of a request
SchemaOf(out) ==
  IF out.url = RegisterUrl THEN registerSchema
  ELSE IF out.url = LoginUrl THEN loginSchema
  ELSE profileSchema

\* res.status(status).json(...) by the stage that ends the list of stages
Answer(req, stages, status, message) ==
  [req EXCEPT !.stages = stages, !.status = status, !.message = message]

\* the routes of routes/index.js and user-route.js, then notFound
route(req, stages, outcome) ==
  IF /\ req.method = "PUT"
     /\ req.url = ProfileUrl
     /\ outcome = Returned(401, MESSAGES.TOKEN_REQUIRED, FALSE)
  THEN Answer(req, stages \o <<"routes", "authenticate">>, outcome.status, outcome.message)
  ELSE IF req.url \in {RegisterUrl, LoginUrl} \/ (req.method = "PUT" /\ req.url = ProfileUrl)
  THEN LET before == IF req.method = "PUT" THEN <<"routes", "authenticate">> ELSE <<"routes">>
           errors == validationErrors(SchemaOf(req), req.payload)
           gate == validatorGate(errors)
           checked == [req EXCEPT !.replies = gate.replies, !.nexts = gate.nexts]
           rejected == [ Answer(checked, stages \o before \o <<"validateBody">>, 400,
                                MESSAGES.VALIDATION_ERROR) EXCEPT !.errors = errors ]
           handled == [ Answer(checked,
                               stages \o before \o <<"validateBody", "controller">>
                                 \o (IF outcome.thrown # NoError THEN <<"errorHandler">> ELSE <<>>),
                               outcome.status, outcome.message)
                          EXCEPT !.thrown = outcome.thrown, !.tokens = outcome.tokens ]
       IN IF gate.nexts = 0 THEN rejected
          ELSE IF gate.replies = 0 THEN handled
          ELSE [handled EXCEPT !.errors = errors]
  ELSE IF req.url \in {ProfileUrl, HealthUrl}
  THEN [ Answer(req,
                stages \o <<"routes", "controller">>
                  \o (IF outcome.thrown # NoError THEN <<"errorHandler">> ELSE <<>>),
                outcome.status, outcome.message)
           EXCEPT !.thrown = outcome.thrown, !.tokens = outcome.tokens ]
  ELSE Answer(req, stages \o mounted(req.url, API_PREFIX, "routes") \o <<"notFound">>,
              404, "Resource not found")

Init ==
  /\ now = 0
  /\ users = <<>>
  /\ nextId = 1
  /\ procs = [p \in Proc |-> Idle]
  /\ resp = NoResponse
  /\ issued = {}
  /\ reqs = 0
  /\ hits = NoHits
  /\ attempts = NoAttempts
  /\ slow = NoSlow
  /\ db = NotStarted
  /\ outbound = NoOutbound


(***************************************************************************)
(* POST /users/register -> createUser                                      *)
(***************************************************************************)
\* the existence check skipped
userExists_never(existingUser) == FALSE

\* existingUser && !existingUser.isDeleted
userExists(existingUser) == \E i \in existingUser : ~users[i].isDeleted

\* the request arrives with a payload the route's validateBody accepted;
\* startTransaction and findOne({ email }): existing non-deleted user -> 409
createUser_findOne(p, email, name, password) ==
  /\ procs[p].pc = "idle"
  /\ reqs < MaxReq
  /\ reqs' = reqs + 1
  /\ LET req == [Idle EXCEPT !.op = "register", !.email = email, !.name = name,
                             !.password = password]
         existingUser == findByEmail(email)
     IN IF userExists(existingUser)
        THEN /\ procs' = [procs EXCEPT ![p] = Idle]
             /\ resp' = Reply(req, 409, MESSAGES.USER_EXISTS)
        ELSE /\ procs' = [procs EXCEPT ![p] =
                            [req EXCEPT !.pc = "createUser_save",
                                        !.sawDeleted = (existingUser # {})]]
             /\ resp' = NoResponse
  /\ UNCHANGED <<now, users, nextId, issued>>

\* a collection without the unique index
UniqueEmailIndex_absent(p, email) == TRUE

\* the unique index on email refuses the insert when a committed document
\* (deleted or not) or another transaction's uncommitted insert holds the key
UniqueEmailIndex(p, email) ==
  findByEmail(email) = {} /\ ~EmailKeyPending(p, email)

\* the first save issued without the session: the insert is committed at once
saveInSession_noSession(p, doc) == users @@ (nextId :> doc)

\* user.save({ session }): the insert stays in the transaction, the committed
\* collection other requests read is as before
saveInSession(p, doc) == users

\* hashPassword, new User(...), first user.save({ session })
createUser_save(p) ==
  /\ procs[p].pc = "createUser_save"
  /\ UniqueEmailIndex(p, procs[p].email) => nextId <= MaxUsers
  /\ IF UniqueEmailIndex(p, procs[p].email)
     THEN /\ procs' = [procs EXCEPT ![p] =
                         [procs[p] EXCEPT !.pc = "createUser_tokens",
                                          !.userId = nextId,
                                          !.pend = NewUser(procs[p].email, procs[p].name,
                                                           hashPassword(procs[p].password))]]
          /\ nextId' = nextId + 1
          /\ users' = saveInSession(p, NewUser(procs[p].email, procs[p].name,
                                               hashPassword(procs[p].password)))
          /\ resp' = NoResponse
     ELSE \* E11000 duplicate key -> errorHandler 409; a key written after the
          \* transaction's snapshot, or held by an open transaction -> WriteConflict
          /\ procs' = [procs EXCEPT ![p] = Idle]
          /\ nextId' = nextId
          /\ users' = users
          /\ \E dup \in IF EmailKeyPending(p, procs[p].email) THEN {FALSE}
                        ELSE IF procs[p].sawDeleted THEN {TRUE} ELSE {TRUE, FALSE} :
               resp' = IF dup THEN Response(p, 409, "email already exists")
                              ELSE Response(p, 500, "WriteConflict")
  /\ UNCHANGED <<now, issued, reqs>>

\* generateAccessToken, generateRefreshToken, second user.save({ session })
createUser_tokens(p) ==
  /\ procs[p].pc = "createUser_tokens"
  /\ procs' = [procs EXCEPT ![p] =
                 [procs[p] EXCEPT
                    !.pc = "createUser_commit",
                    !.pend = [procs[p].pend EXCEPT
                       !.accessToken = generateAccessToken(procs[p].userId, procs[p].email, now),
                       !.refreshToken = generateRefreshToken(procs[p].userId, procs[p].email, now)]]]
  /\ resp' = NoResponse
  /\ UNCHANGED <<now, users, nextId, issued, reqs>>

\* session.commitTransaction(), 201 with the user summary and the token pair
createUser_commit(p) ==
  /\ procs[p].pc = "createUser_commit"
  /\ users' = users @@ (procs[p].userId :> procs[p].pend)
  /\ procs' = [procs EXCEPT ![p] = Idle]
  /\ resp' = [Response(p, 201, MESSAGES.USER_CREATED) EXCEPT
                !.userId = procs[p].userId,
                !.accessToken = procs[p].pend.accessToken,
                !.refreshToken = procs[p].pend.refreshToken,
                !.data = userSummary(procs[p].userId, procs[p].pend, {"email", "name"})]
  /\ issued' = issued \cup {procs[p].pend.accessToken}
  /\ UNCHANGED <<now, nextId, reqs>>

\* an abort that leaves the inserted document behind
abortTransaction_keepsInsert(p) == users @@ (procs[p].userId :> procs[p].pend)

\* session.abortTransaction(): the writes made under the session are dropped
abortTransaction(p) == users

\* token generation, the second save or the commit throws (a signing or a
\* database error): the catch block aborts the transaction and rethrows,
\* errorHandler answers 500 with the error's message
createUser_abort(p) ==
  /\ procs[p].pc \in {"createUser_tokens", "createUser_commit"}
  /\ users' = abortTransaction(p)
  /\ procs' = [procs EXCEPT ![p] = Idle]
  /\ resp' = Response(p, 500, MESSAGES.INTERNAL_ERROR)
  /\ UNCHANGED <<now, nextId, issued, reqs>>

(***************************************************************************)
(* POST /users/login -> loginUser                                          *)
(***************************************************************************)
\* a login that skips the isActive check
isDeactivated_never(user) == FALSE

\* !user.isActive
isDeactivated(user) == ~user.isActive

\* startTransaction, findOne({ email, isDeleted: false }), the isActive check
loginUser_findOne(p, email, password) ==
  /\ procs[p].pc = "idle"
  /\ reqs < MaxReq
  /\ reqs' = reqs + 1
  /\ LET req == [Idle EXCEPT !.op = "login", !.email = email, !.password = password]
         user == findActiveByEmail(email)
     IN IF user = {}
        THEN /\ procs' = [procs EXCEPT ![p] = Idle]
             /\ resp' = Reply(req, 401, MESSAGES.INVALID_CREDENTIALS)
        ELSE LET id == CHOOSE i \in user : TRUE
             IN IF isDeactivated(users[id])
                THEN /\ procs' = [procs EXCEPT ![p] = Idle]
                     /\ resp' = Reply(req, 403, "User account is deactivated")
                ELSE /\ procs' = [procs EXCEPT ![p] =
                                    [req EXCEPT !.pc = "loginUser_save", !.userId = id,
                                                !.pend = users[id]]]
                     /\ resp' = NoResponse
  /\ UNCHANGED <<now, users, nextId, issued>>

\* comparePassword, the new token pair, lastLogin, user.save({ session })
loginUser_save(p) ==
  /\ procs[p].pc = "loginUser_save"
  /\ LET id == procs[p].userId
         user == procs[p].pend
     IN IF ~comparePassword(procs[p].password, user.password)
        THEN /\ procs' = [procs EXCEPT ![p] = Idle]
             /\ resp' = Response(p, 401, MESSAGES.INVALID_CREDENTIALS)
        ELSE IF procs[p].stale \/ DocLocked(p, id)
        THEN /\ procs' = [procs EXCEPT ![p] = Idle]
             /\ resp' = Response(p, 500, "WriteConflict")
        ELSE /\ procs' = [procs EXCEPT ![p] =
                            [procs[p] EXCEPT
                               !.pc = "loginUser_commit",
                               !.pend = [user EXCEPT
                                  !.accessToken = generateAccessToken(id, user.email, now),
                                  !.refreshToken = generateRefreshToken(id, user.email, now),
                                  !.lastLogin = now]]]
             /\ resp' = NoResponse
  /\ UNCHANGED <<now, users, nextId, issued, reqs>>

\* session.commitTransaction(), 200 with the user summary and the token pair
loginUser_commit(p) ==
  /\ procs[p].pc = "loginUser_commit"
  /\ LET id == procs[p].userId
         user == procs[p].pend
     IN /\ users' = [users EXCEPT ![id].accessToken = user.accessToken,
                                  ![id].refreshToken = user.refreshToken,
                                  ![id].lastLogin = user.lastLogin]
        /\ procs' = Invalidate(p, id, Idle)
        /\ resp' = [Response(p, 200, MESSAGES.LOGIN_SUCCESS) EXCEPT
                      !.userId = id,
                      !.accessToken = user.accessToken,
                      !.refreshToken = user.refreshToken,
                      !.data = userSummary(id, user, {"email", "name", "lastLogin"})]
        /\ issued' = issued \cup {user.accessToken}
  /\ UNCHANGED <<now, nextId, reqs>>

(***************************************************************************)
(* Protected routes: the authenticate middleware                           *)
(***************************************************************************)
ProtectedOps == {"getProfile", "updateProfile", "logout", "deleteAccount"}

\* the bodies a client may send to PUT /users/profile
Patches ==
  [ rename     |-> [name |-> "Bob"],
    shortname  |-> [name |-> "B"],
    deactivate |-> [isActive |-> FALSE],
    takeover   |-> [ name |-> "Bob", password |-> <<"plain", "Hacked123">>,
                     email |-> "b@x.com", accessToken |-> ForgedToken,
                     refreshToken |-> ForgedToken, isDeleted |-> TRUE,
                     deletedAt |-> 0 ] ]

PatchIds == DOMAIN Patches

NameLength == [Ann |-> 3, Bob |-> 3, B |-> 1]

\* validateBody of PUT /profile: name is optional, a string of 2..50 characters
validateProfileBody(body) ==
  "name" \in DOMAIN body => (NameLength[body.name] >= 2 /\ NameLength[body.name] <= 50)

\* authenticate without the comparison with the stored token
authenticateResult_anyValidToken(token, t) ==
  IF token = NoToken
  THEN [status |-> 401, message |-> MESSAGES.TOKEN_REQUIRED, userId |-> 0]
  ELSE IF ~verifyAccessToken(token, t)
  THEN [status |-> 401, message |-> "Invalid or expired access token", userId |-> 0]
  ELSE IF token.userId \notin Ids
  THEN [status |-> 401, message |-> MESSAGES.TOKEN_INVALID, userId |-> 0]
  ELSE IF users[token.userId].isDeleted
  THEN [status |-> 401, message |-> "User account has been deleted", userId |-> 0]
  ELSE IF ~users[token.userId].isActive
  THEN [status |-> 403, message |-> "User account is deactivated", userId |-> 0]
  ELSE [status |-> 200, message |-> "next", userId |-> token.userId]

\* authenticate without the isDeleted check
authenticateResult_noDeletedCheck(token, t) ==
  IF token = NoToken
  THEN [status |-> 401, message |-> MESSAGES.TOKEN_REQUIRED, userId |-> 0]
  ELSE IF ~verifyAccessToken(token, t)
  THEN [status |-> 401, message |-> "Invalid or expired access token", userId |-> 0]
  ELSE IF token.userId \notin Ids
  THEN [status |-> 401, message |-> MESSAGES.TOKEN_INVALID, userId |-> 0]
  ELSE IF ~users[token.userId].isActive
  THEN [status |-> 403, message |-> "User account is deactivated", userId |-> 0]
  ELSE IF users[token.userId].accessToken # token
  THEN [status |-> 401, message |-> MESSAGES.TOKEN_INVALID, userId |-> 0]
  ELSE [status |-> 200, message |-> "next", userId |-> token.userId]

\* the verdict of authenticate on a bearer token, read off the committed
\* collection at second t: the status, the message and req.userId
\* authenticate attaching the first document of the collection, not the
\* one the token names
authenticateResult_firstUser(token, t) ==
  IF token = NoToken
  THEN [status |-> 401, message |-> MESSAGES.TOKEN_REQUIRED, userId |-> 0]
  ELSE IF ~verifyAccessToken(token, t)
  THEN [status |-> 401, message |-> "Invalid or expired access token", userId |-> 0]
  ELSE IF token.userId \notin Ids
  THEN [status |-> 401, message |-> MESSAGES.TOKEN_INVALID, userId |-> 0]
  ELSE IF users[token.userId].isDeleted
  THEN [status |-> 401, message |-> "User account has been deleted", userId |-> 0]
  ELSE IF ~users[token.userId].isActive
  THEN [status |-> 403, message |-> "User account is deactivated", userId |-> 0]
  ELSE IF users[token.userId].accessToken # token
  THEN [status |-> 401, message |-> MESSAGES.TOKEN_INVALID, userId |-> 0]
  ELSE [status |-> 200, message |-> "next",
        userId |-> CHOOSE i \in Ids : \A j \in Ids : i <= j]

authenticateResult(token, t) ==
  IF token = NoToken
  THEN [status |-> 401, message |-> MESSAGES.TOKEN_REQUIRED, userId |-> 0]
  ELSE IF ~verifyAccessToken(token, t)
  THEN [status |-> 401, message |-> "Invalid or expired access token", userId |-> 0]
  ELSE IF token.userId \notin Ids
  THEN [status |-> 401, message |-> MESSAGES.TOKEN_INVALID, userId |-> 0]
  ELSE IF users[token.userId].isDeleted
  THEN [status |-> 401, message |-> "User account has been deleted", userId |-> 0]
  ELSE IF ~users[token.userId].isActive
  THEN [status |-> 403, message |-> "User account is deactivated", userId |-> 0]
  ELSE IF users[token.userId].accessToken # token
  THEN [status |-> 401, message |-> MESSAGES.TOKEN_INVALID, userId |-> 0]
  ELSE [status |-> 200, message |-> "next", userId |-> token.userId]

\* the service call the controller of each protected route makes
ServiceOf ==
  [ getProfile    |-> "getUserById",
    updateProfile |-> "updateUser_findOneAndUpdate",
    logout        |-> "logoutUser_findOneAndUpdate",
    deleteAccount |-> "deleteUser_findOneAndUpdate" ]

\* a protected request arrives: authenticate (User.findById outside any
\* transaction), then validateBody for PUT /profile, then the controller
authenticate(p, op, token, patch) ==
  /\ procs[p].pc = "idle"
  /\ reqs < MaxReq
  /\ reqs' = reqs + 1
  /\ op = "updateProfile" <=> patch # ""
  /\ LET verdict == authenticateResult(token, now)
         req == [Idle EXCEPT !.op = op, !.bearer = token, !.patch = patch]
         \* the middleware answers before the route is looked at
         mw == [Idle EXCEPT !.op = "authenticate", !.bearer = token]
     IN IF verdict.status # 200
        THEN /\ procs' = [procs EXCEPT ![p] = Idle]
             /\ resp' = Reply(mw, verdict.status, verdict.message)
        ELSE IF op = "updateProfile" /\ ~validateProfileBody(Patches[patch])
        THEN /\ procs' = [procs EXCEPT ![p] = Idle]
             /\ resp' = Reply(req, 400, MESSAGES.VALIDATION_ERROR)
        ELSE /\ procs' = [procs EXCEPT ![p] =
                            [req EXCEPT !.pc = ServiceOf[op], !.userId = verdict.userId]]
             /\ resp' = NoResponse
  /\ UNCHANGED <<now, users, nextId, issued>>

(***************************************************************************)
(* GET /users/profile -> getUserById                                       *)
(***************************************************************************)
getUserById(p) ==
  /\ procs[p].pc = "getUserById"
  /\ resp' = IF findLiveById(procs[p].userId) = {}
             THEN Response(p, 404, MESSAGES.USER_NOT_FOUND)
             ELSE [Response(p, 200, "Profile retrieved successfully") EXCEPT
                     !.userId = procs[p].userId,
                     !.data = toJSON(defaultProjection(users[procs[p].userId]))]
  /\ procs' = [procs EXCEPT ![p] = Idle]
  /\ UNCHANGED <<now, users, nextId, issued, reqs>>

\* getUserByEmail: the outcome of the service call (no route calls it)
getUserByEmail(email) ==
  IF findActiveByEmail(email) = {}
  THEN [status |-> 404, message |-> MESSAGES.USER_NOT_FOUND, userId |-> 0]
  ELSE [status |-> 200, message |-> "",
        userId |-> CHOOSE i \in findActiveByEmail(email) : TRUE]

(***************************************************************************)
(* PUT /users/profile -> updateProfile -> updateUser                       *)
(***************************************************************************)
\* delete updateData.<field> for each field of fields
Strip(updateData, fields) ==
  [f \in (DOMAIN updateData) \ fields |-> updateData[f]]

\* the controller's deletes (updateProfile)
controllerStrip(updateData) ==
  Strip(updateData, {"password", "email", "accessToken", "refreshToken"})

\* updateUser deleting no more than the controller does
serviceStrip_tokensOnly(updateData) ==
  Strip(updateData, {"password", "email", "accessToken", "refreshToken"})

\* the service's deletes (updateUser)
serviceStrip(updateData) ==
  Strip(updateData, {"password", "email", "accessToken", "refreshToken",
                     "isDeleted", "deletedAt"})

\* updateData.isUpdated = true; updateData.lastUpdatedAt = new Date()
withTracking(updateData, t) ==
  [f \in (DOMAIN updateData) \cup {"isUpdated", "lastUpdatedAt"} |->
     IF f = "isUpdated" THEN TRUE
     ELSE IF f = "lastUpdatedAt" THEN t
     ELSE updateData[f]]

\* { $set: updateData } on a document
applySet(doc, updateData) ==
  [f \in DOMAIN doc |-> IF f \in DOMAIN updateData THEN updateData[f] ELSE doc[f]]

\* findOneAndUpdate({ _id, isDeleted: false }, { $set }) in a transaction:
\* no match -> 404, a document another transaction is writing -> WriteConflict
updateUser_findOneAndUpdate(p) ==
  /\ procs[p].pc = "updateUser_findOneAndUpdate"
  /\ LET id == procs[p].userId
         updateData == withTracking(serviceStrip(controllerStrip(Patches[procs[p].patch])), now)
     IN IF findLiveById(id) = {}
        THEN /\ procs' = [procs EXCEPT ![p] = Idle]
             /\ resp' = Response(p, 404, MESSAGES.USER_NOT_FOUND)
        ELSE IF DocLocked(p, id)
        THEN /\ procs' = [procs EXCEPT ![p] = Idle]
             /\ resp' = Response(p, 500, "WriteConflict")
        ELSE /\ procs' = [procs EXCEPT ![p] =
                            [procs[p] EXCEPT !.pc = "updateUser_commit",
                                             !.pend = applySet(users[id], updateData)]]
             /\ resp' = NoResponse
  /\ UNCHANGED <<now, users, nextId, issued, reqs>>

updateUser_commit(p) ==
  /\ procs[p].pc = "updateUser_commit"
  /\ users' = [users EXCEPT ![procs[p].userId] = procs[p].pend]
  /\ procs' = Invalidate(p, procs[p].userId, Idle)
  /\ resp' = [Response(p, 200, MESSAGES.USER_UPDATED) EXCEPT
                !.userId = procs[p].userId,
                !.data = toJSON(defaultProjection(procs[p].pend))]
  /\ UNCHANGED <<now, nextId, issued, reqs>>

(***************************************************************************)
(* POST /users/logout -> logoutUser                                        *)
(***************************************************************************)
\* a logout that clears the refresh token only
logoutSet_keepsAccessToken(doc) == [doc EXCEPT !.refreshToken = NoToken]

\* a logout that clears the access token only
logoutSet_keepsRefreshToken(doc) == [doc EXCEPT !.accessToken = NoToken]

\* { $set: { accessToken: null, refreshToken: null } }
logoutSet(doc) == [doc EXCEPT !.accessToken = NoToken, !.refreshToken = NoToken]

logoutUser_findOneAndUpdate(p) ==
  /\ procs[p].pc = "logoutUser_findOneAndUpdate"
  /\ LET id == procs[p].userId
     IN IF findLiveById(id) = {}
        THEN /\ procs' = [procs EXCEPT ![p] = Idle]
             /\ resp' = Response(p, 404, MESSAGES.USER_NOT_FOUND)
        ELSE IF DocLocked(p, id)
        THEN /\ procs' = [procs EXCEPT ![p] = Idle]
             /\ resp' = Response(p, 500, "WriteConflict")
        ELSE /\ procs' = [procs EXCEPT ![p] =
                            [procs[p] EXCEPT
                               !.pc = "logoutUser_commit",
                               !.pend = logoutSet(users[id])]]
             /\ resp' = NoResponse
  /\ UNCHANGED <<now, users, nextId, issued, reqs>>

logoutUser_commit(p) ==
  /\ procs[p].pc = "logoutUser_commit"
  /\ users' = [users EXCEPT ![procs[p].userId] = procs[p].pend]
  /\ procs' = Invalidate(p, procs[p].userId, Idle)
  /\ resp' = [Response(p, 200, MESSAGES.LOGOUT_SUCCESS) EXCEPT !.userId = procs[p].userId]
  /\ UNCHANGED <<now, nextId, issued, reqs>>

(***************************************************************************)
(* DELETE /users/account -> deleteUser (soft delete)                       *)
(***************************************************************************)
\* { $set: { isDeleted: true, deletedAt: new Date(), accessToken: null,
\*           refreshToken: null, isActive: false } }
deleteSet_keepsTokens(doc, t) ==
  [doc EXCEPT !.isDeleted = TRUE, !.deletedAt = t, !.isActive = FALSE]

deleteSet(doc, t) ==
  [doc EXCEPT !.isDeleted = TRUE, !.deletedAt = t, !.accessToken = NoToken,
              !.refreshToken = NoToken, !.isActive = FALSE]

deleteUser_findOneAndUpdate(p) ==
  /\ procs[p].pc = "deleteUser_findOneAndUpdate"
  /\ LET id == procs[p].userId
     IN IF findLiveById(id) = {}
        THEN /\ procs' = [procs EXCEPT ![p] = Idle]
             /\ resp' = Response(p, 404, MESSAGES.USER_NOT_FOUND)
        ELSE IF DocLocked(p, id)
        THEN /\ procs' = [procs EXCEPT ![p] = Idle]
             /\ resp' = Response(p, 500, "WriteConflict")
        ELSE /\ procs' = [procs EXCEPT ![p] =
                            [procs[p] EXCEPT
                               !.pc = "deleteUser_commit",
                               !.pend = deleteSet(users[id], now)]]
             /\ resp' = NoResponse
  /\ UNCHANGED <<now, users, nextId, issued, reqs>>

deleteUser_commit(p) ==
  /\ procs[p].pc = "deleteUser_commit"
  /\ users' = [users EXCEPT ![procs[p].userId] = procs[p].pend]
  /\ procs' = Invalidate(p, procs[p].userId, Idle)
  /\ resp' = [Response(p, 200, MESSAGES.USER_DELETED) EXCEPT
                !.userId = procs[p].userId, !.deletedAt = procs[p].pend.deletedAt,
                !.data = userSummary(procs[p].userId, procs[p].pend,
                                     {"email", "name", "deletedAt"})]
  /\ UNCHANGED <<now, nextId, issued, reqs>>

(***************************************************************************)
(* The clock                                                               *)
(***************************************************************************)
Tick ==
  /\ now < MaxTime
  /\ now' = now + 1
  /\ resp' = NoResponse
  /\ UNCHANGED <<users, nextId, procs, issued, reqs>>

\* what a client can put in the Authorization header: nothing, a token it
\* was given (access or refresh), or a token it signed itself
RefreshOf(token) ==
  generateRefreshToken(token.userId, token.email, token.iat)

BearerInputs ==
  {NoToken, ForgedToken} \cup issued \cup {RefreshOf(token) : token \in issued}

Next ==
  \/ \E p \in Proc, email \in Emails, name \in Names, password \in RegisterPasswords :
       createUser_findOne(p, email, name, password)
  \/ \E p \in Proc : createUser_save(p)
  \/ \E p \in Proc : createUser_tokens(p)
  \/ \E p \in Proc : createUser_commit(p)
  \/ \E p \in Proc : createUser_abort(p)
  \/ \E p \in Proc, email \in Emails, password \in Passwords :
       loginUser_findOne(p, email, password)
  \/ \E p \in Proc : loginUser_save(p)
  \/ \E p \in Proc : loginUser_commit(p)
  \/ \E p \in Proc, op \in ProtectedOps, token \in BearerInputs, patch \in PatchIds \cup {""} :
       authenticate(p, op, token, patch)
  \/ \E p \in Proc : getUserById(p)
  \/ \E p \in Proc : updateUser_findOneAndUpdate(p)
  \/ \E p \in Proc : updateUser_commit(p)
  \/ \E p \in Proc : logoutUser_findOneAndUpdate(p)
  \/ \E p \in Proc : logoutUser_commit(p)
  \/ \E p \in Proc : deleteUser_findOneAndUpdate(p)
  \/ \E p \in Proc : deleteUser_commit(p)
  \/ Tick

\* the lifecycle engine on its own: the middleware chain stands still
Spec == Init /\ [][Next /\ UNCHANGED <<pipelineVars, slowDownVars, connectVars>>]_vars

(***************************************************************************)
(* Requests through the middleware chain                                   *)
(***************************************************************************)
\* one request of the client through app.js
handle(method, url, origin, body, uuid, outcome) ==
  LET req == Inbound(method, url, origin, body, uuid)
      g == globalLimiter(url, hits.global)
      a == authLimiter(url, hits.auth)
      early == <<"requestId", "security">>
      toGlobal == early \o <<"bodyParser">> \o mounted(url, API_PREFIX, "globalLimiter")
      toAuth == toGlobal \o mounted(url, LoginUrl, "authLimiter")
                         \o mounted(url, RegisterUrl, "authLimiter")
      toRoutes == toAuth \o mounted(url, API_PREFIX, "speedLimiter") \o <<"logging">>
  IN /\ hits.global < GlobalMax + Overshoot
     /\ hits.auth < AuthMax + Overshoot
     /\ IF origin = "foreign"
        THEN /\ outbound' = [ Answer(req, early \o <<"errorHandler">>,
                                     errorHandler(CorsError).status,
                                     errorHandler(CorsError).message)
                                EXCEPT !.thrown = CorsError ]
             /\ hits' = hits
        ELSE IF g.limited
        THEN /\ outbound' = Answer(req, toGlobal, 429, "Too many requests, please slow down.")
             /\ hits' = [hits EXCEPT !.global = g.hits]
        ELSE IF a.limited
        THEN /\ outbound' = Answer(req, toAuth, 429,
                                   "Too many authentication attempts, please try again later.")
             /\ hits' = [global |-> g.hits, auth |-> a.hits]
        ELSE /\ outbound' = route(req, toRoutes, outcome)
             /\ hits' = [global |-> g.hits, auth |-> a.hits]
     /\ attempts' = IF origin = "foreign" \/ g.limited THEN attempts
                    ELSE IF startsWith(url, LoginUrl)
                    THEN [attempts EXCEPT !.login = @ + 1]
                    ELSE IF startsWith(url, RegisterUrl)
                    THEN [attempts EXCEPT !.register = @ + 1]
                    ELSE attempts
     /\ UNCHANGED engineVars

\* the window of a limiter ends (windowMs after it began): its counter is reset
windowReset(limiter) ==
  /\ hits[limiter] > 0
  /\ hits' = [hits EXCEPT ![limiter] = 0]
  /\ attempts' = IF limiter = "auth" THEN NoAttempts ELSE attempts
  /\ UNCHANGED <<outbound, engineVars>>

PipelineNext ==
  \/ \E url \in Urls, origin \in Origins, uuid \in UUIDs :
       \E method \in MethodsOf(url) :
         \E body \in BodiesOf(method, url), outcome \in OutcomesOf(method, url) :
           handle(method, url, origin, body, uuid, outcome)
  \/ \E limiter \in {"global", "auth"} : windowReset(limiter)

PipelineSpec == Init /\ [][PipelineNext /\ UNCHANGED <<slowDownVars, connectVars>>]_vars

(***************************************************************************)
(* Requests through the speedLimiter                                       *)
(***************************************************************************)
\* one request of the client reaches the speedLimiter
speedLimiter ==
  /\ slow.used < MaxUsed
  /\ LET verdict == slowDown(slow.used + 1)
     IN slow' = [ status |-> verdict.status, used |-> slow.used + 1,
                  delay |-> verdict.delay, nexts |-> verdict.nexts ]
  /\ UNCHANGED <<engineVars, pipelineVars, connectVars>>

\* the window of the speedLimiter ends: its counter is reset
speedLimiter_windowReset ==
  /\ slow.used > 0
  /\ slow' = [slow EXCEPT !.used = 0]
  /\ UNCHANGED <<engineVars, pipelineVars, connectVars>>

SlowDownNext ==
  \/ speedLimiter
  \/ speedLimiter_windowReset

SlowDownSpec == Init /\ [][SlowDownNext]_vars

(***************************************************************************)
(* The connect loop                                                        *)
(***************************************************************************)
\* connectDB(retries = env.MONGO_MAX_RETRIES) is called: let i = 0
connectDB(retries, retryDelay) ==
  /\ db.pc = "idle"
  /\ db' = [db EXCEPT !.pc = "for", !.retries = retries, !.retryDelay = retryDelay, !.i = 0]
  /\ UNCHANGED <<engineVars, pipelineVars, slowDownVars>>

\* the loop test: into the body, or past the loop to process.exit(1)
connectDB_for ==
  /\ db.pc = "for"
  /\ db' = IF loopCondition(db.i, db.retries)
           THEN [db EXCEPT !.pc = "connect"]
           ELSE [db EXCEPT !.pc = "exited", !.exitCode = 1]
  /\ UNCHANGED <<engineVars, pipelineVars, slowDownVars>>

\* await mongoose.connect(...): resolves (return) or rejects (catch)
connectDB_connect(ok) ==
  /\ db.pc = "connect"
  /\ db' = [db EXCEPT !.pc = IF ok THEN "returned" ELSE "catch",
                      !.results = Append(@, ok)]
  /\ UNCHANGED <<engineVars, pipelineVars, slowDownVars>>

\* the catch block: sleep before the next attempt, or go straight to i++
connectDB_catch ==
  /\ db.pc = "catch"
  /\ db' = IF shouldWait(db.i, db.retries)
           THEN [db EXCEPT !.pc = "setTimeout"]
           ELSE [db EXCEPT !.pc = "for", !.i = @ + 1]
  /\ UNCHANGED <<engineVars, pipelineVars, slowDownVars>>

\* await new Promise((resolve) => setTimeout(resolve, delay)), then i++
connectDB_setTimeout ==
  /\ db.pc = "setTimeout"
  /\ db' = [db EXCEPT !.pc = "for", !.i = @ + 1,
                      !.waits = Append(@, retryDelayOf(db.i, db.retryDelay))]
  /\ UNCHANGED <<engineVars, pipelineVars, slowDownVars>>

ConnectNext ==
  \/ \E retries \in RetriesConfigured, retryDelay \in RetryDelays :
       connectDB(retries, retryDelay)
  \/ connectDB_for
  \/ \E ok \in BOOLEAN : connectDB_connect(ok)
  \/ connectDB_catch
  \/ connectDB_setTimeout

\* every await of connectDB settles: mongoose.connect resolves or rejects
\* within serverSelectionTimeoutMS, and the timer of setTimeout fires
ConnectSpec == Init /\ [][ConnectNext]_vars /\ WF_vars(ConnectNext)

(***************************************************************************)
(* Properties                                                              *)
(***************************************************************************)
ServicePcs == {ServiceOf[op] : op \in ProtectedOps}

\* slot p leaves position pc in this step
Leaves(p, pc) == procs[p].pc = pc /\ procs'[p].pc # pc

\* slot p finishes its request from position pc in this step
Finishes(p, pc) == procs[p].pc = pc /\ procs'[p].pc = "idle"

\* authenticate lets the request of slot p through in this step
Authorized(p) == procs[p].pc = "idle" /\ procs'[p].pc \in ServicePcs

\* what authenticate answers to a token in the state the step leads to
authenticateAfter(token) == authenticateResult(token, now)'

\* C1: after a successful login, every access token issued for the account
\* by an earlier register or login, and not yet expired, is rejected by
\* authorize with 401.
C1_EarlierTokensRejected ==
  [][\A p \in Proc :
       Finishes(p, "loginUser_commit") =>
         \A token \in issued :
           (token.userId = procs[p].userId /\ now < token.exp) =>
             authenticateAfter(token).status = 401]_vars

\* C2: authorize lets a request through only if the token is signed with the
\* access secret and unexpired, the account of its userId exists, is not
\* deleted, is active and stores exactly this token; the identity attached
\* to the request is that account's id.
C2_AuthorizeOnlyIf ==
  [][\A p \in Proc :
       Authorized(p) =>
         LET token == procs'[p].bearer IN
           /\ token.sig = JWT_SECRET
           /\ now < token.exp
           /\ token.userId \in DOMAIN users
           /\ ~users[token.userId].isDeleted
           /\ users[token.userId].isActive
           /\ users[token.userId].accessToken = token
           /\ procs'[p].userId = token.userId]_vars

\* a request has been let through by authenticate
C2_Witness == \E p \in Proc : procs[p].pc \in ServicePcs

\* C10: in every reachable state no two non-deleted accounts share an email.
C10_UniqueLiveEmail ==
  \A i \in DOMAIN users : \A j \in DOMAIN users :
    (i # j /\ users[i].email = users[j].email) =>
      (users[i].isDeleted \/ users[j].isDeleted)

\* a register lost the race for an email at the index while the account of
\* the winner is live
C10_Witness ==
  /\ resp.op = "register"
  /\ resp.message \in {"email already exists", "WriteConflict"}
  /\ findActiveByEmail(resp.email) # {}

\* C3: the access token register returns passes authorize (while unexpired)
\* and resolves to the id of the account just created; once logout of an
\* account has committed, authorize fails for every token of that account.
C3_RoundTrip ==
  [][\A p \in Proc :
       /\ (Finishes(p, "createUser_commit") /\ resp'.status = 201) =>
            /\ resp'.userId = procs[p].userId
            /\ resp'.userId \in DOMAIN users'
            /\ resp'.userId \notin DOMAIN users
            /\ users'[resp'.userId].email = resp'.email
            /\ \E token \in issued' :
                 /\ token = resp'.accessToken
                 /\ token \in BearerInputs'
                 /\ now < token.exp =>
                      /\ authenticateAfter(token).status = 200
                      /\ authenticateAfter(token).userId = resp'.userId
       /\ Finishes(p, "logoutUser_commit") =>
            \A token \in BearerInputs :
              token.userId = procs[p].userId => authenticateAfter(token).status # 200]_vars

\* a logout has committed for an account whose register-issued token has
\* not expired
C3_Witness ==
  /\ resp.op = "logout"
  /\ resp.status = 200
  /\ \E token \in issued : token.userId = resp.userId /\ now < token.exp

\* the step answers a protected request in the authenticate middleware
AuthenticateRejects == reqs' = reqs + 1 /\ resp'.op = "authenticate"

\* C4: once an account is soft-deleted, authorize answers 401 to every
\* request that carries a token of that account and never lets it through
\* to a lifecycle operation.
C4_DeletedTokenRejected ==
  [][/\ \A p \in Proc :
          Authorized(p) => ~users[procs'[p].bearer.userId].isDeleted
     /\ (/\ AuthenticateRejects
         /\ resp'.bearer.userId \in DOMAIN users
         /\ users[resp'.bearer.userId].isDeleted) => resp'.status = 401]_vars

\* the last token issued for a deleted account was presented and refused
C4_Witness ==
  /\ resp.op = "authenticate"
  /\ resp.bearer \in issued
  /\ users[resp.bearer.userId].isDeleted
  /\ resp.status = 401

\* a register request for email arrives in this step
RegisterArrives(email) ==
  /\ reqs' = reqs + 1
  /\ \/ resp'.op = "register" /\ resp'.email = email
     \/ \E p \in Proc : /\ procs[p].pc = "idle"
                        /\ procs'[p].op = "register"
                        /\ procs'[p].email = email

\* C5: a register for an email that a non-deleted account holds is answered
\* 409 Conflict, creates no account and issues no token.
C5_DuplicateEmailConflict ==
  [][\A email \in Emails :
       (RegisterArrives(email) /\ findActiveByEmail(email) # {}) =>
         /\ resp'.op = "register"
         /\ resp'.status = 409
         /\ resp'.message = MESSAGES.USER_EXISTS
         /\ resp'.accessToken = NoToken
         /\ UNCHANGED <<users, nextId, issued, procs>>]_vars

\* a register was refused because a live account holds the email
C5_Witness ==
  /\ resp.op = "register"
  /\ resp.status = 409
  /\ resp.message = MESSAGES.USER_EXISTS
  /\ findActiveByEmail(resp.email) # {}

\* the response loginUser gives when no account matches the email
UnknownEmailReply == [status |-> 401, message |-> MESSAGES.INVALID_CREDENTIALS]

\* the password is not the one the account of email was registered with
WrongPassword(email, password) ==
  \E i \in findActiveByEmail(email) : ~comparePassword(password, users[i].password)

\* C6: for every existing non-deleted account, whatever its other flags, a
\* login with its email and a wrong password gets the status and message of
\* a login with an unknown email.
C6_WrongPasswordLikeUnknownEmail ==
  [][/\ (/\ reqs' = reqs + 1
         /\ resp'.op = "login"
         /\ WrongPassword(resp'.email, resp'.password)) =>
          [status |-> resp'.status, message |-> resp'.message] = UnknownEmailReply
     /\ \A p \in Proc :
          (/\ Finishes(p, "loginUser_save")
           /\ WrongPassword(procs[p].email, procs[p].password)) =>
            [status |-> resp'.status, message |-> resp'.message] = UnknownEmailReply]_vars

ProtectedFields ==
  {"password", "email", "accessToken", "refreshToken", "isDeleted", "deletedAt"}

\* C8: a successful updateProfile leaves password, email, both stored
\* tokens, the deleted flag and the deletion timestamp as they were,
\* whatever the patch holds.
C8_UpdateKeepsProtectedFields ==
  [][\A p \in Proc :
       /\ Leaves(p, "updateUser_findOneAndUpdate") /\ procs'[p].pc = "updateUser_commit" =>
            \A f \in ProtectedFields : procs'[p].pend[f] = users[procs[p].userId][f]
       /\ Finishes(p, "updateUser_commit") =>
            /\ resp'.status = 200
            /\ \A f \in ProtectedFields :
                 users'[procs[p].userId][f] = users[procs[p].userId][f]]_vars

\* an update whose patch names every protected field has committed
C8_Witness ==
  /\ resp.op = "updateProfile"
  /\ resp.status = 200
  /\ ProtectedFields \subseteq DOMAIN Patches[resp.patch]
  /\ users[resp.userId].name = Patches[resp.patch].name

\* C9: a register for an email held only by a soft-deleted account is not
\* refused: its insert goes through.
C9_ReRegisterAfterDelete ==
  [][\A p \in Proc :
       (/\ Leaves(p, "createUser_save")
        /\ procs[p].sawDeleted
        /\ findByEmail(procs[p].email) # {}
        /\ findActiveByEmail(procs[p].email) = {}
        /\ ~EmailKeyPending(p, procs[p].email)) =>
         /\ procs'[p].pc = "createUser_tokens"
         /\ resp'.status < 400]_vars

\* the register in slot p fails after its insert was written
FailsAfterInsert(p) ==
  /\ procs[p].pc \in {"createUser_tokens", "createUser_commit"}
  /\ procs'[p].pc = "idle"
  /\ resp'.status >= 400

\* C11: a register that fails after the account record was written leaves
\* the committed collection as it was, with no account for its email; and an
\* account enters the committed collection only with both tokens stored.
C11_RegisterAllOrNothing ==
  [][/\ \A p \in Proc :
          FailsAfterInsert(p) =>
            /\ users' = users
            /\ procs[p].userId \notin DOMAIN users'
            /\ \A email \in Emails :
                 email = procs[p].email => findByEmail(email)' = {}
     /\ \A id \in DOMAIN users' \ DOMAIN users :
          /\ users'[id].accessToken # NoToken
          /\ users'[id].refreshToken # NoToken
          /\ resp'.status = 201
          /\ resp'.accessToken = users'[id].accessToken
          /\ resp'.refreshToken = users'[id].refreshToken]_vars

\* a register was aborted after its insert and its email has no account
C11_Witness ==
  /\ resp.op = "register"
  /\ resp.status = 500
  /\ resp.message = MESSAGES.INTERNAL_ERROR
  /\ findByEmail(resp.email) = {}

\* doc is the complete state the operation committing in slot p leaves
CompletePostState(p, doc) ==
  LET id == procs[p].userId
      pend == procs[p].pend
  IN CASE procs[p].pc = "createUser_commit" ->
            doc = pend /\ doc.accessToken # NoToken /\ doc.refreshToken # NoToken
       [] procs[p].pc = "loginUser_commit" ->
            /\ doc = [users[id] EXCEPT !.accessToken = pend.accessToken,
                                       !.refreshToken = pend.refreshToken,
                                       !.lastLogin = pend.lastLogin]
            /\ doc.accessToken # NoToken /\ doc.refreshToken # NoToken
            /\ doc.lastLogin # NullTime
       [] procs[p].pc = "updateUser_commit" ->
            doc = pend /\ doc.isUpdated /\ doc.lastUpdatedAt # NullTime
       [] procs[p].pc = "logoutUser_commit" ->
            doc = logoutSet(users[id])
       [] procs[p].pc = "deleteUser_commit" ->
            doc = pend /\ doc = deleteSet(users[id], pend.deletedAt)
       [] OTHER -> FALSE

\* C12: the committed record of an account, which is all that concurrent
\* operations and the authorize check read, changes only in the commit step
\* of one operation and then to that operation's complete post-state;
\* authorize never lets a request through on a record without stored tokens.
C12_PreOrPostState ==
  [][/\ \A id \in DOMAIN users' :
          (id \notin DOMAIN users \/ users'[id] # users[id]) =>
            \E p \in Proc : /\ procs[p].userId = id
                            /\ procs'[p].pc = "idle"
                            /\ CompletePostState(p, users'[id])
     /\ \A p \in Proc :
          Authorized(p) =>
            /\ users[procs'[p].userId].accessToken # NoToken
            /\ users[procs'[p].userId].refreshToken # NoToken]_vars

\* a request passed authorize on an account while a login of that account
\* holds uncommitted tokens
C12_Witness ==
  \E p, q \in Proc :
    /\ procs[p].pc = "loginUser_commit"
    /\ procs[q].pc \in ServicePcs
    /\ procs[q].userId = procs[p].userId
    /\ procs[p].pend.accessToken # users[procs[p].userId].accessToken

\* another login for the account of slot p's login is in flight
ConcurrentLogin(p) ==
  \E q \in Proc \ {p} :
    /\ procs[q].pc \in {"loginUser_save", "loginUser_commit"}
    /\ procs[q].userId = procs[p].userId

\* C13: of two logins for one account that run concurrently, each one that
\* presents the right password completes, and the token a login returns is
\* the stored one when it commits (the last commit wins).
C13_ConcurrentLoginsLastWriteWins ==
  [][\A p \in Proc :
       /\ (/\ Leaves(p, "loginUser_save")
           /\ ConcurrentLogin(p)
           /\ comparePassword(procs[p].password, procs[p].pend.password)) =>
            /\ procs'[p].pc = "loginUser_commit"
            /\ resp'.status < 400
       /\ Finishes(p, "loginUser_commit") =>
            /\ resp'.status = 200
            /\ users'[procs[p].userId].accessToken = resp'.accessToken]_vars

\* C14: a soft-deleted record never changes again: no step of any
\* operation makes it non-deleted or alters one of its fields.
C14_DeletedIsTerminal ==
  [][\A id \in DOMAIN users :
       users[id].isDeleted => (id \in DOMAIN users' /\ users'[id] = users[id])]_vars

\* a register or login addressed to the email of a deleted account was answered
C14_Witness ==
  \E id \in DOMAIN users :
    /\ users[id].isDeleted
    /\ resp.op \in {"register", "login"}
    /\ resp.email = users[id].email
    /\ resp.status # 0

\* C15: every committed account whose deleted flag is set has no stored
\* access token, no stored refresh token, a deletion timestamp and the
\* active flag cleared.
C15_DeletedRecordShape ==
  \A id \in DOMAIN users :
    users[id].isDeleted =>
      /\ users[id].accessToken = NoToken
      /\ users[id].refreshToken = NoToken
      /\ users[id].deletedAt # NullTime
      /\ ~users[id].isActive

\* a login that overlapped the deletion of its account has ended in a
\* write conflict
C15_Witness ==
  \E id \in DOMAIN users :
    /\ users[id].isDeleted
    /\ resp.op = "login"
    /\ resp.email = users[id].email
    /\ resp.message = "WriteConflict"

\* a login request for email arrives in this step
LoginArrives(email) ==
  /\ reqs' = reqs + 1
  /\ \/ resp'.op = "login" /\ resp'.email = email
     \/ \E p \in Proc : /\ procs[p].pc = "idle"
                        /\ procs'[p].op = "login"
                        /\ procs'[p].email = email

\* the account holding email is soft-deleted
DeletedEmail(email) ==
  \E id \in DOMAIN users : users[id].email = email /\ users[id].isDeleted

\* C16: for a soft-deleted account, a login with its email and its password
\* is answered 401; getUserById, getUserByEmail, updateUser and logoutUser
\* addressed to it are answered 404, and none of them changes the record.
C16_DeletedAccountLookups ==
  [][/\ \A email \in Emails :
          (LoginArrives(email) /\ DeletedEmail(email)) =>
            /\ resp'.op = "login"
            /\ resp'.status = 401
            /\ resp'.message = MESSAGES.INVALID_CREDENTIALS
            /\ UNCHANGED <<users, procs>>
     /\ \A p \in Proc :
          (/\ \/ Leaves(p, "getUserById")
              \/ Leaves(p, "updateUser_findOneAndUpdate")
              \/ Leaves(p, "logoutUser_findOneAndUpdate")
           /\ users[procs[p].userId].isDeleted) =>
            /\ resp'.status = 404
            /\ resp'.message = MESSAGES.USER_NOT_FOUND
            /\ procs'[p].pc = "idle"
            /\ users' = users
     /\ \A email \in Emails :
          DeletedEmail(email) =>
            /\ getUserByEmail(email).status = 404
            /\ getUserByEmail(email).message = MESSAGES.USER_NOT_FOUND]_vars

\* a read, update or logout reached the service for an account deleted in
\* the meantime and was answered 404
C16_Witness ==
  /\ resp.op \in {"getProfile", "updateProfile", "logout"}
  /\ resp.status = 404
  /\ users[resp.bearer.userId].isDeleted

\* the account holding email is not deleted and not active
InactiveEmail(email) ==
  \E id \in DOMAIN users :
    users[id].email = email /\ ~users[id].isDeleted /\ ~users[id].isActive

\* C17: a login to an inactive, non-deleted account is answered 403 with
\* the 'deactivated' message, which is not the answer a deleted account
\* gets, and the committed records, stored tokens included, stay as they are.
C17_InactiveLoginForbidden ==
  [][\A email \in Emails :
       (LoginArrives(email) /\ InactiveEmail(email)) =>
         /\ resp'.op = "login"
         /\ resp'.status = 403
         /\ resp'.message = "User account is deactivated"
         /\ <<resp'.status, resp'.message>> # <<401, MESSAGES.INVALID_CREDENTIALS>>
         /\ UNCHANGED <<users, procs>>]_vars

\* a login to a deactivated account that still holds its tokens was refused
C17_Witness ==
  /\ resp.op = "login"
  /\ resp.status = 403
  /\ \E id \in DOMAIN users :
       /\ users[id].email = resp.email
       /\ ~users[id].isActive /\ ~users[id].isDeleted
       /\ users[id].accessToken # NoToken

\* C18: a token with a bad signature and a token that has expired make
\* verifyAccessToken and verifyRefreshToken fail in two ways their caller
\* can tell apart.
C18_VerifyDistinguishesFailures ==
  \A bad, old \in BearerInputs \ {NoToken} :
    /\ (/\ jwtVerifyError(bad, JWT_SECRET, now) = "JsonWebTokenError"
        /\ jwtVerifyError(old, JWT_SECRET, now) = "TokenExpiredError") =>
         verifyAccessTokenError(bad, now) # verifyAccessTokenError(old, now)
    /\ (/\ jwtVerifyError(bad, JWT_REFRESH_SECRET, now) = "JsonWebTokenError"
        /\ jwtVerifyError(old, JWT_REFRESH_SECRET, now) = "TokenExpiredError") =>
         verifyRefreshTokenError(bad, now) # verifyRefreshTokenError(old, now)

\* the token is expired, forged, revoked by a newer login or a logout, or
\* names a deleted account
FailureCase(token) ==
  \/ jwtVerifyError(token, JWT_SECRET, now) # "none"
  \/ /\ token.userId \in Ids
     /\ \/ users[token.userId].isDeleted
        \/ users[token.userId].isActive /\ users[token.userId].accessToken # token

\* C19: authenticate answers every expired, forged, revoked or
\* deleted-account token with 401 and one and the same message.
C19_UniformAuthorizeFailure ==
  \A t1, t2 \in BearerInputs \ {NoToken} :
    (FailureCase(t1) /\ FailureCase(t2)) =>
      /\ authenticateResult(t1, now).status = 401
      /\ authenticateResult(t1, now).message = authenticateResult(t2, now).message

\* slot p holds a protected request that has passed authenticate
InProtectedOp(p) == procs[p].op \in ProtectedOps /\ procs[p].pc # "idle"

\* C20: a protected request works on the account its bearer token names and
\* on no other: the id its service call uses is the token's, its steps leave
\* every other record unchanged, and a record it returns is that account's.
C20_OwnAccountOnly ==
  [][\A p \in Proc :
       /\ InProtectedOp(p) => procs[p].userId = procs[p].bearer.userId
       /\ (InProtectedOp(p) /\ procs'[p].pc # procs[p].pc) =>
            /\ \A id \in DOMAIN users :
                 id # procs[p].bearer.userId => users'[id] = users[id]
            /\ resp'.status = 200 => resp'.userId = procs[p].bearer.userId]_vars

\* with two accounts in the collection, a protected request of the second
\* one has completed
C20_Witness ==
  /\ resp.op \in ProtectedOps
  /\ resp.status = 200
  /\ Cardinality(DOMAIN users) >= 2
  /\ \E id \in DOMAIN users : id < resp.bearer.userId

\* C21: no response of register, login, getProfile, updateProfile or
\* deleteAccount carries the password field, and the record getProfile and
\* updateProfile return carries neither stored token.
C21_NoSecretsInResponses ==
  /\ resp.op \in {"register", "login", "getProfile", "updateProfile", "deleteAccount"} =>
       "password" \notin DOMAIN resp.data
  /\ resp.op \in {"getProfile", "updateProfile"} =>
       /\ "accessToken" \notin DOMAIN resp.data
       /\ "refreshToken" \notin DOMAIN resp.data
       /\ resp.accessToken = NoToken
       /\ resp.refreshToken = NoToken

\* a profile was returned for an account that holds a password and tokens
C21_Witness ==
  /\ resp.op \in {"getProfile", "updateProfile"}
  /\ resp.status = 200
  /\ {"email", "name"} \subseteq DOMAIN resp.data
  /\ users[resp.userId].accessToken # NoToken

(***************************************************************************)
(* Properties of the middleware chain (PipelineSpec)                       *)
(***************************************************************************)
\* the stages a response went through
StagesOf(out) == {out.stages[i] : i \in DOMAIN out.stages}

\* this step is a request for url going through the chain (a window reset
\* lowers a counter, a request never does)
Handles(url) ==
  /\ outbound'.url = url
  /\ hits'.global >= hits.global
  /\ hits'.auth >= hits.auth

\* C22: a login or registration attempt counted by the strict limiter passes
\* it while fewer than AuthMax attempts were counted in the window, so at
\* most AuthMax pass; every further one is answered 429 by the strict
\* limiter before the validator and the controller run; the end of the
\* window puts the count back to zero, from where attempts pass again.
C22_StrictLimiterCeiling ==
  [][ /\ hits'.auth = hits.auth + 1 =>
           /\ outbound'.url \in {LoginUrl, RegisterUrl}
           /\ IF hits.auth < AuthMax
              THEN /\ outbound'.status # 429
                   /\ "validateBody" \in StagesOf(outbound')
              ELSE /\ outbound'.status = 429
                   /\ outbound'.message =
                        "Too many authentication attempts, please try again later."
                   /\ StagesOf(outbound') \cap {"validateBody", "controller"} = {}
                   /\ ~outbound'.tokens
      /\ \A url \in {LoginUrl, RegisterUrl} :
           Handles(url) /\ "validateBody" \in StagesOf(outbound') =>
             hits'.auth = hits.auth + 1 /\ hits'.auth <= AuthMax
      /\ hits'.auth < hits.auth => hits'.auth = 0
    ]_vars

\* one attempt above the ceiling was refused by the strict limiter while the
\* global limiter still had room
C22_Witness ==
  /\ outbound.url \in {LoginUrl, RegisterUrl}
  /\ outbound.status = 429
  /\ hits.auth = AuthMax + 1
  /\ hits.global <= GlobalMax

\* C23: a health-check request is never counted by the global limiter and
\* never rejected by it.
C23_HealthNeverCounted ==
  [][ Handles(HealthUrl) =>
        /\ hits'.global = hits.global
        /\ outbound'.status # 429
    ]_vars

Validated(out) == "validateBody" \in StagesOf(out)

OperatorShaped(out) ==
  /\ out.url = LoginUrl
  /\ \/ Field(out.body, "email") = OperatorObject
     \/ Field(out.body, "password") = OperatorObject

\* C26: a login whose email or password is an operator-shaped object never
\* reaches the controller (so it is no query filter and changes no account),
\* returns no tokens and never succeeds; once past the limiters and the
\* origin check it is answered 400 by the type rule of the field.
C26_OperatorLoginRejected ==
  OperatorShaped(outbound) =>
    /\ "controller" \notin StagesOf(outbound)
    /\ ~outbound.tokens
    /\ outbound.status \notin {200, 201}
    /\ Validated(outbound) =>
         /\ outbound.status = 400
         /\ \E i \in DOMAIN outbound.errors :
              /\ outbound.errors[i].text = "must be of type"
              /\ Field(outbound.body, outbound.errors[i].field) = OperatorObject

\* the validator answered an operator-shaped login
C26_Witness ==
  /\ OperatorShaped(outbound)
  /\ Validated(outbound)
  /\ outbound.status = 400

Unrecognised(err) ==
  /\ err # NoError
  /\ ~includesCORS(err.message)
  /\ err.name \notin {"ValidationError", "CastError", "JsonWebTokenError", "TokenExpiredError"}
  /\ err.code # 11000
  /\ err.statusCode = 0

\* C28: an error with no recognised type and no status code is answered 500
\* with a message that is not the raw message of the error.
C28_NoRawMessage ==
  Unrecognised(outbound.thrown) =>
    /\ outbound.status = 500
    /\ outbound.thrown.message # "" => outbound.message # outbound.thrown.message

RuleNames ==
  { "required", "type", "email", "alphanumeric", "minLength", "maxLength",
    "requireUppercase", "requireLowercase", "requireNumbers" }

\* the rule is set for the field and the value breaks it (the rules on the
\* text of a value are taken to apply to strings only)
RuleViolated(rule, rules, value) ==
  LET isString == value.type = "string"
      facts == FactsOf(IF isString THEN value.text ELSE "")
  IN IF rule = "required" THEN rules.required /\ (isNullish(value) \/ value = Str(""))
     ELSE IF rule = "type" THEN rules.type # "" /\ ~typeMatches(rules.type, value)
     ELSE IF rule = "email" THEN rules.email /\ isString /\ ~facts.email
     ELSE IF rule = "alphanumeric" THEN rules.alphanumeric /\ isString /\ ~facts.alnum
     ELSE IF rule = "minLength"
          THEN rules.minLength # 0 /\ isString /\ facts.length < rules.minLength
     ELSE IF rule = "maxLength"
          THEN rules.maxLength # 0 /\ isString /\ facts.length > rules.maxLength
     ELSE IF rule = "requireUppercase"
          THEN rules.password /\ rules.requireUppercase /\ isString /\ ~facts.upper
     ELSE IF rule = "requireLowercase"
          THEN rules.password /\ rules.requireLowercase /\ isString /\ ~facts.lower
     ELSE rules.password /\ rules.requireNumbers /\ isString /\ ~facts.digit

\* the message the validator has for a rule
RuleMessage(fieldName, rule) ==
  Message(fieldName,
    IF rule = "required" THEN "is required"
    ELSE IF rule = "type" THEN "must be of type"
    ELSE IF rule = "email" THEN "must be a valid email address"
    ELSE IF rule = "alphanumeric" THEN "must contain only alphanumeric characters and spaces"
    ELSE IF rule = "minLength" THEN "Must be at least min characters"
    ELSE IF rule = "maxLength" THEN "Must be no more than max characters"
    ELSE IF rule = "requireUppercase" THEN "Password must contain at least one uppercase letter"
    ELSE IF rule = "requireLowercase" THEN "Password must contain at least one lowercase letter"
    ELSE "Password must contain at least one number")

\* C30: for every field present in the payload, the list of the validator
\* holds the message of every rule of the field that the value violates.
C30_EveryViolationReported ==
  Validated(outbound) =>
    \A fieldName \in DOMAIN outbound.body : \A rule \in RuleNames :
      RuleViolated(rule, SchemaOf(outbound).fields[fieldName], outbound.body[fieldName]) =>
        \E i \in DOMAIN outbound.errors : outbound.errors[i] = RuleMessage(fieldName, rule)

(***************************************************************************)
(* Failed logins (Spec)                                                    *)
(***************************************************************************)
\* slot p holds a login whose password no account was registered with
WrongPasswordLogin(p) ==
  procs[p].op = "login" /\ procs[p].password \notin RegisterPasswords

\* a login is refused on arrival in this step: unknown email or inactive account
RefusedOnArrival ==
  reqs' = reqs + 1 /\ resp'.op = "login" /\ resp'.status \in {401, 403}

\* C29: a login refused for an unknown email or an inactive account, and
\* the password check of a login with a wrong password (which ends in 401),
\* leave the committed records as they are, token pair and lastLogin
\* included, and authenticate answers every issued token after the step as
\* before it.
C29_FailedLoginChangesNothing ==
  [][/\ RefusedOnArrival =>
          /\ users' = users
          /\ \A token \in issued : authenticateAfter(token) = authenticateResult(token, now)
     /\ \A p \in Proc :
          (WrongPasswordLogin(p) /\ Leaves(p, "loginUser_save")) =>
            /\ procs'[p].pc = "idle"
            /\ resp'.status = 401
            /\ resp'.message = MESSAGES.INVALID_CREDENTIALS
            /\ resp'.accessToken = NoToken
            /\ users' = users
            /\ \A token \in issued : authenticateAfter(token) = authenticateResult(token, now)
    ]_vars

\* a login with a wrong password was refused and the session the account had
\* before it is still accepted
C29_Witness ==
  /\ resp.op = "login"
  /\ resp.status = 401
  /\ resp.password \notin RegisterPasswords
  /\ \E token \in issued :
       /\ token.email = resp.email
       /\ authenticateResult(token, now).status = 200
       /\ users[token.userId].lastLogin # NullTime

(***************************************************************************)
(* The password check (PipelineSpec)                                       *)
(***************************************************************************)
\* the enabled rules of validatePassword a string breaks
BrokenPasswordRules(value, options) ==
  LET facts == FactsOf(value.text)
  IN   {r \in {"nonEmpty"} : value.text = ""}
  \cup {r \in {"minLength"} : facts.length < options.minLength}
  \cup {r \in {"uppercase"} : options.requireUppercase /\ ~facts.upper}
  \cup {r \in {"lowercase"} : options.requireLowercase /\ ~facts.lower}
  \cup {r \in {"digit"} : options.requireNumbers /\ ~facts.digit}

\* C31: the password check returns one message for each enabled rule the
\* password does not meet: a password breaking k rules yields k messages.
C31_MessagePerBrokenRule ==
  (Validated(outbound) /\ outbound.url = RegisterUrl
     /\ Field(outbound.body, "password").type = "string") =>
    LET value == outbound.body.password
        options == passwordOptions(registerSchema.fields.password)
    IN Len(validatePassword(value, options))
         = Cardinality(BrokenPasswordRules(value, options))

(***************************************************************************)
(* Optional fields and the sanitizers (PipelineSpec)                       *)
(***************************************************************************)
\* the schemas the routes pass to validateBody
Schemas == {registerSchema, loginSchema, profileSchema}

\* the fields of a schema
FieldsOf(schema) == {schema.order[i] : i \in DOMAIN schema.order}

\* C32: a field that is undefined or null in the payload and not required
\* gets no message, whatever other rules its schema entry sets: on the
\* routes, and for the rules of every schema entry with required unset.
C32_OptionalAbsentFieldSilent ==
  /\ Validated(outbound) =>
       \A fieldName \in FieldsOf(SchemaOf(outbound)) :
         (/\ ~SchemaOf(outbound).fields[fieldName].required
          /\ isNullish(Field(outbound.payload, fieldName))) =>
           \A i \in DOMAIN outbound.errors :
             /\ outbound.errors[i].field # fieldName
             /\ \A j \in DOMAIN outbound.errors[i].missing :
                  outbound.errors[i].missing[j] # fieldName
  /\ \A schema \in Schemas : \A fieldName \in FieldsOf(schema) :
       \A value \in {Undefined, Null} :
         fieldErrors(fieldName, [schema.fields[fieldName] EXCEPT !.required = FALSE],
                     value) = <<>>

\* a PUT /users/profile whose name is null passed the validator
C32_Witness ==
  /\ Validated(outbound)
  /\ outbound.method = "PUT"
  /\ Field(outbound.payload, "name") = Null
  /\ outbound.errors = <<>>
  /\ "controller" \in StagesOf(outbound)

\* C33: the body the validator sees has been through the sanitizers: its
\* operator-marked keys are rewritten and its markup is escaped.
C33_ValidatorSeesSanitizedBody ==
  Validated(outbound) => outbound.payload = sanitize(outbound.body)

(***************************************************************************)
(* Profile updates, stale authorisations and the token pair (Spec)         *)
(***************************************************************************)
\* C35: the commit of an updateProfile leaves the active flag of every
\* account as it was, whatever the patch holds.
C35_UpdateKeepsActiveFlag ==
  [][\A p \in Proc :
       Leaves(p, "updateUser_commit") =>
         \A id \in DOMAIN users : users'[id].isActive = users[id].isActive
    ]_vars


\* the step in which the lifecycle operation of a protected request runs:
\* the findOneAndUpdate of updateUser, logoutUser or deleteUser
OperationPcs ==
  {"updateUser_findOneAndUpdate", "logoutUser_findOneAndUpdate",
   "deleteUser_findOneAndUpdate"}

\* the token the request in slot p was authorised with is no longer the
\* stored token of its account
Revoked(p) ==
  /\ procs[p].userId \in DOMAIN users
  /\ users[procs[p].userId].accessToken # procs[p].bearer

\* C36: when the lifecycle operation of a protected request runs after its
\* token stopped being the account's stored token, the operation prepares no
\* write: the request ends there and the account stays as it is.
C36_RevokedTokenHasNoEffect ==
  [][\A p \in Proc, pc \in OperationPcs :
       (Leaves(p, pc) /\ Revoked(p)) =>
         (procs'[p].pc = "idle" /\ users' = users)
    ]_vars


\* C37: in every committed state the stored access token of an account is
\* null exactly when its stored refresh token is null.
C37_TokenPairTogether ==
  \A id \in DOMAIN users :
    (users[id].accessToken = NoToken) <=> (users[id].refreshToken = NoToken)

\* an account that registered, was updated and then logged out: the update
\* kept the pair, the logout cleared both
C37_Witness ==
  \E id \in DOMAIN users :
    /\ users[id].isUpdated
    /\ ~users[id].isDeleted
    /\ users[id].accessToken = NoToken
    /\ users[id].refreshToken = NoToken


\* the refresh tokens register and login have handed out so far
RefreshTokens == {RefreshOf(token) : token \in issued}

\* C39: authorize never accepts a refresh token as the bearer token: no
\* request is let through with one, a request that presents one is answered
\* 401, and in every state the verdict on every refresh token handed out is
\* 401.
C39_RefreshTokenNeverAccepted ==
  [][/\ \A p \in Proc : Authorized(p) => procs'[p].bearer \notin RefreshTokens
     /\ (AuthenticateRejects /\ resp'.bearer \in RefreshTokens) => resp'.status = 401
     /\ \A token \in RefreshTokens : authenticateResult(token, now).status = 401
    ]_vars

\* the refresh token a live, active account stores was presented as the
\* bearer token before it expired, and refused
C39_Witness ==
  /\ resp.op = "authenticate"
  /\ resp.status = 401
  /\ resp.bearer \in RefreshTokens
  /\ resp.bearer.userId \in DOMAIN users
  /\ users[resp.bearer.userId].refreshToken = resp.bearer
  /\ users[resp.bearer.userId].isActive
  /\ now < resp.bearer.exp


(***************************************************************************)
(* The strict counter shared by login and registration (PipelineSpec)      *)
(***************************************************************************)
\* the strict limiter is mounted on the route of url
AuthUrl(url) == startsWith(url, LoginUrl) \/ startsWith(url, RegisterUrl)

\* the request of this step reaches the mount point of the strict limiter:
\* it passed the CORS check and the global limiter
ReachesAuthLimiter ==
  \E url \in Urls : Handles(url) /\ outbound'.origin # "foreign"
                                 /\ hits'.global = hits.global + 1
                                 /\ hits'.global <= GlobalMax

\* C38: login and registration attempts of the client are counted by one
\* strict counter: the counter is the sum of both kinds of attempt of the
\* window; an attempt to either endpoint that arrives when the sum has reached
\* AuthMax is answered 429 by the strict limiter; a request to another route
\* leaves the strict counter alone and is answered 429 only by the global
\* limiter.
C38_SharedStrictCounter ==
  [][ /\ hits'.auth = attempts'.login + attempts'.register
      /\ \A url \in {LoginUrl, RegisterUrl} :
           (Handles(url) /\ ReachesAuthLimiter
              /\ attempts.login + attempts.register >= AuthMax) =>
             /\ outbound'.status = 429
             /\ outbound'.message =
                  "Too many authentication attempts, please try again later."
      /\ \A url \in Urls :
           (Handles(url) /\ ~AuthUrl(url)) =>
             /\ hits'.auth = hits.auth
             /\ outbound'.status = 429 => hits'.global > GlobalMax
    ]_vars

\* a registration was refused by the strict limiter after login attempts
\* alone had used up the window
C38_Witness ==
  /\ outbound.url = RegisterUrl
  /\ outbound.status = 429
  /\ attempts.login = AuthMax
  /\ attempts.register = 1
  /\ hits.global <= GlobalMax


(***************************************************************************)
(* The slow-down (SlowDownSpec)                                            *)
(***************************************************************************)
\* C34: the speedLimiter never rejects: every request it counts is passed
\* on with next() and no response of its own. The delay it adds is 0 while
\* the count of the window is at most RATE_LIMIT_SLOW_DOWN_DELAY_AFTER; above
\* it the delay is count x 100 ms cut at RATE_LIMIT_SLOW_DOWN_MAX_DELAY, never
\* less than the delay of the request before, never above the maximum.
C34_SlowDownOnlyDelays ==
  [][ slow'.used = slow.used + 1 =>
        /\ slow'.nexts = 1
        /\ slow'.status = 0
        /\ slow'.delay <= RATE_LIMIT_SLOW_DOWN_MAX_DELAY
        /\ IF slow'.used <= RATE_LIMIT_SLOW_DOWN_DELAY_AFTER
           THEN slow'.delay = 0
           ELSE /\ slow'.delay >= slow.delay
                /\ \/ slow'.delay = slow'.used * DelayPerHit
                   \/ /\ slow'.delay = RATE_LIMIT_SLOW_DOWN_MAX_DELAY
                      /\ slow'.used * DelayPerHit > RATE_LIMIT_SLOW_DOWN_MAX_DELAY
    ]_vars

\* a request beyond the count at which count x 100 ms passes the maximum was
\* passed on with the maximum delay
C34_Witness ==
  /\ slow.used * DelayPerHit > RATE_LIMIT_SLOW_DOWN_MAX_DELAY
  /\ slow.delay = RATE_LIMIT_SLOW_DOWN_MAX_DELAY
  /\ slow.nexts = 1


(***************************************************************************)
(* The connect loop (ConnectSpec)                                          *)
(***************************************************************************)
\* connectDB has ended: it returned, or it ended the process
Terminated == db.pc \in {"returned", "exited"}

\* the calls of mongoose.connect made so far that failed
Failures == {k \in DOMAIN db.results : ~db.results[k]}

\* what holds of the loop in every state
ConnectSafe ==
  \* at most the configured number of attempts
  /\ Len(db.results) <= db.retries
  \* no attempt after a success: a success is the last attempt, and the
  \* function returns exactly when the last attempt succeeded
  /\ \A k \in DOMAIN db.results : db.results[k] => k = Len(db.results)
  /\ db.pc = "returned" <=>
       (db.results # <<>> /\ db.results[Len(db.results)])
  \* the k-th wait is k x retry delay and follows the k-th failed attempt
  /\ \A k \in DOMAIN db.waits : db.waits[k] = k * db.retryDelay /\ k \in Failures
  \* a wait only between attempts: none after the last one allowed
  /\ \A k \in DOMAIN db.waits : k < db.retries
  \* every failed attempt but the last allowed is followed by its wait
  \* before the next attempt is made
  /\ Len(db.results) >= 2 => Len(db.waits) >= Len(db.results) - 1
  \* the process ends only after every allowed attempt failed, with code 1
  /\ db.pc = "exited" =>
       /\ db.exitCode = 1
       /\ Len(db.results) = db.retries
       /\ Failures = DOMAIN db.results
       /\ Len(db.waits) = IF db.retries = 0 THEN 0 ELSE db.retries - 1
  /\ db.pc # "exited" => db.exitCode = -1

\* C40: the connect loop always terminates; it makes at most the configured
\* number of attempts, returns at the first attempt that succeeds, waits
\* (attempt number x retry delay) between attempts and not after the last
\* one, and ends the process with exit code 1 when every attempt fails.
C40_ConnectLoopTerminates == []ConnectSafe /\ <>Terminated

\* with the default of MONGO_MAX_RETRIES attempts all failed, the process
\* ended with exit code 1 after a wait between every two attempts
C40_Witness ==
  /\ db.pc = "exited"
  /\ db.retries = MONGO_MAX_RETRIES
  /\ db.retryDelay = MONGO_RETRY_DELAY_MS
  /\ Len(db.results) = MONGO_MAX_RETRIES
  /\ db.waits = [k \in 1 .. (MONGO_MAX_RETRIES - 1) |-> k * MONGO_RETRY_DELAY_MS]
  /\ db.exitCode = 1

=============================================================================
